---- MODULE Spec2Model ----
(***************************************************************************)
(* Analysis engine of the build tool: the target map (an async keyed map  *)
(* whose reader is CreateTargetMap's target_reader), the result registry  *)
(* and the memoised expression hash.                                      *)
(***************************************************************************)
EXTENDS Integers, Sequences, FiniteSets, TLC

(***************************************************************************)
(* Bounds of the model.                                                   *)
(***************************************************************************)
\* longest list a target field evaluates to
MaxDeps == 2
\* number of top-level consume_after_keys_ready calls of a run
MaxTop == 2
\* number of threads calling ToHash concurrently
MaxThreads == 3
\* number of ACTION and TREE calls of one evaluation
MaxCalls == 2
\* number of keys the JSON file reader runs for
MaxReads == 2
\* nesting depth of the expressions IsCacheable is asked about
MaxTraverse == 2
MaxStores == 3
MaxExecute == 3
MaxNest == 2

(***************************************************************************)
(* The universe: targets, configurations, taints.                         *)
(***************************************************************************)
Named == {"a", "b", "c"}
Anon == {"n"}
Targets == Named \cup Anon
Vars == {"M"}
Vals == {"dbg", "opt"}
Unset == "_"
Taints == {"t"}

\* Configuration: variable -> value, Unset where the variable is absent
Configs == [Vars -> Vals \cup {Unset}]
EmptyConf == [v \in Vars |-> Unset]

\* Configuration::Update: layered override by the overlay
Update(c, overlay) ==
    [v \in Vars |-> IF overlay[v] # Unset THEN overlay[v] ELSE c[v]]

\* Configuration::Prune: restrict the domain to vars
Prune(c, vars) == [v \in Vars |-> IF v \in vars THEN c[v] ELSE Unset]

\* Configuration::VariableFixed: the variable is present
VariableFixed(c, x) == c[x] # Unset

\* ConfiguredTarget {target, config}
Keys == [target : Targets, config : Configs]
TopOwners == [target : {"top1", "top2", "top3"}, config : {EmptyConf}]
Owners == Keys \cup TopOwners
TopOwner(i) == [target |-> IF i = 1 THEN "top1" ELSE IF i = 2 THEN "top2" ELSE "top3",
                config |-> EmptyConf]

\* sequences over S of length at most n
RECURSIVE SeqsUpTo(_, _)
SeqsUpTo(S, n) ==
    IF n = 0 THEN {<<>>}
    ELSE LET shorter == SeqsUpTo(S, n - 1)
         IN  shorter \cup {Append(s, x) : s \in {q \in shorter : Len(q) = n - 1}, x \in S}

Range(s) == {s[i] : i \in 1..Len(s)}

(***************************************************************************)
(* What the targets file and the rule file say about a target.  A named   *)
(* target absent from the targets file is an implicit source file, which  *)
(* may be missing on disk; an anonymous target is a value node or an      *)
(* abstract node instantiated by a rule.                                  *)
(***************************************************************************)
Identity == <<EmptyConf>>
Dbg == [v \in Vars |-> "dbg"]
Opt == [v \in Vars |-> "opt"]

Rule(deps, trans, tvars, cvars, texpr, rtaint, anon, nodes) ==
    [kind |-> "rule", deps |-> deps, trans |-> trans, tvars |-> tvars,
     cvars |-> cvars, texpr |-> texpr, rtaint |-> rtaint, anon |-> anon,
     nodes |-> nodes]
Leaf(kind) == [kind |-> kind, deps |-> <<>>, trans |-> Identity, tvars |-> {},
               cvars |-> {}, texpr |-> {}, rtaint |-> {}, anon |-> FALSE,
               nodes |-> <<>>]
PlainRule(deps) == Rule(deps, Identity, {}, {}, {}, {}, FALSE, <<>>)

\* (tainted_expr value, rule.Tainted) pairs
TaintPairs == {<<{}, {}>>, <<{"t"}, {}>>, <<{}, {"t"}>>}

Families == {"graph", "live", "taint", "config", "prune"}

Menu(fam, t) ==
    CASE fam = "graph" ->
           IF t = "a" THEN {PlainRule(d) : d \in SeqsUpTo(Named, MaxDeps)}
           ELSE IF t = "b"
             THEN {PlainRule(d) : d \in SeqsUpTo({"a", "c"}, 1)}
                  \cup {Leaf("source"), Leaf("missing")}
           ELSE IF t = "c" THEN {PlainRule(<<>>), Leaf("source"), Leaf("missing")}
           ELSE {Leaf("value")}
      [] fam = "live" ->
           IF t = "a" THEN {PlainRule(d) : d \in SeqsUpTo({"b", "c"}, MaxDeps)}
           ELSE IF t = "b" THEN {PlainRule(d) : d \in SeqsUpTo({"a", "c"}, 1)}
           ELSE IF t = "c" THEN {Leaf("source"), Leaf("missing")}
           ELSE {Leaf("value")}
      [] fam = "taint" ->
           IF t = "a"
             THEN {Rule(d, Identity, {}, {}, p[1], p[2], an, <<>>) :
                     d \in {<<"b">>, <<"b", "c">>}, p \in TaintPairs, an \in BOOLEAN}
           ELSE IF t = "b"
             THEN {Rule(<<>>, Identity, {}, {}, p[1], p[2], FALSE, nd) :
                     p \in TaintPairs, nd \in {<<>>, <<"n">>}}
           ELSE IF t = "c" THEN {Leaf("source"), Leaf("missing")}
           ELSE {Leaf("value")}
                \cup {Rule(<<>>, Identity, {}, {}, {}, rt, FALSE, <<>>) : rt \in SUBSET Taints}
      [] fam = "prune" ->
           IF t = "a"
             THEN {Rule(<<"b">>, tr, tv, {}, {}, {}, FALSE, <<>>) :
                     tr \in {Identity, <<Dbg>>}, tv \in SUBSET Vars}
           ELSE IF t = "b"
             THEN {Rule(<<>>, Identity, {}, cv, {}, {}, FALSE, <<>>) : cv \in SUBSET Vars}
           ELSE {Leaf("source")}
      [] fam = "config" ->
           IF t = "a"
             THEN {Rule(d, tr, tv, {}, {}, {}, an, <<>>) :
                     d \in {<<"b">>, <<"b", "c">>},
                     tr \in {Identity, <<Dbg>>, <<Dbg, Opt>>, <<EmptyConf, Dbg>>},
                     tv \in SUBSET Vars, an \in BOOLEAN}
           ELSE IF t = "b"
             THEN {Rule(<<>>, Identity, {}, cv, {}, {}, FALSE, nd) :
                     cv \in SUBSET Vars, nd \in {<<>>, <<"n">>}}
           ELSE IF t = "c" THEN {Leaf("source")}
           ELSE {Leaf("value"), Rule(<<>>, Identity, {}, Vars, {}, {}, FALSE, <<>>)}

\* the key lists of the top-level consume_after_keys_ready calls
TopKeySeqs(fam, i) ==
    IF fam = "prune"
      THEN IF i = 1
             THEN {<<[target |-> "a", config |-> Opt],
                     [target |-> "a", config |-> EmptyConf]>>}
           ELSE {}
    ELSE IF fam = "config"
      THEN IF i = 1 THEN {<<[target |-> "a", config |-> c]>> : c \in {EmptyConf, Opt}}
           ELSE {}
      ELSE IF fam = "live" /\ i > 1 THEN {}
      ELSE IF i > 2 THEN {<<[target |-> "a", config |-> EmptyConf]>>}
      ELSE {<<[target |-> "a", config |-> EmptyConf]>>,
            <<[target |-> "b", config |-> EmptyConf],
              [target |-> "a", config |-> EmptyConf]>>}

(***************************************************************************)
(* AnalysedTarget: origin names the analysis that constructed the object  *)
(* (its identity), vars its effective variables, tainted its taint set,   *)
(* nodes the target nodes it provides.                                    *)
(***************************************************************************)
AnalysedTarget(origin, vars, tainted, nodes) ==
    [origin |-> origin, vars |-> vars, tainted |-> tainted, nodes |-> nodes,
     result |-> <<>>]

VARIABLES
    family,      \* which menu of repositories this run draws from
    desc,        \* desc[t]: <<>> until read, then <<description>>
    node,        \* node[k]: [state, value, why] of the requested keys of the target map
    readerRuns,  \* readerRuns[t]: the configurations target_reader ran for, in order
    reqs,        \* reqs[<<owner, wave>>]: the requests issued so far
    queue,       \* tasks waiting in the task system
    registry,    \* the result registry
    cancelled,   \* the run-wide cancellation flag
    setterCalls, \* the <<key, value>> pairs handed to a setter, in order
    hash_,       \* Expression::hash_ per expression
    hash_loading_, \* Expression::hash_loading_ per expression
    computed,    \* how often ComputeHash ran per expression
    thr,         \* the threads calling ToHash
    rule_tainted, \* rule->Tainted() of the rule whose expression is evaluated
    actions,     \* the actions the evaluation has recorded, in order
    trees,       \* the trees the evaluation has recorded, in order
    call,        \* the last ACTION or TREE call: <<>> or <<[n, fn, arg, out]>>
    kMandatory,  \* the template argument of CreateJsonFileMap
    files,       \* the file root: what is at each location
    json_values, \* per key the JSON file reader ran for: outcome and root accesses
    json_calls,  \* per key the JSON file reader ran for: its setter and logger calls
    cacheable,   \* an expression and, once asked, <<IsCacheable()>> of it
    asked,       \* a call of ToHash, FromJson or ToJson: [fn, arg, out]
    g,           \* the dependency graph the traverser is built on
    traverser,   \* the traverser: traversal states, queued tasks, calls
    build_info,  \* TestBuildInfo: what the executor has recorded
    storage_,    \* the local storage: action cache entries and CAS blobs
    action,      \* the local action under execution: command and cache flag
    responses,   \* what the calls on the local API and cache returned, in order
    reader,      \* one key in the target reader: where it is, what it has called
    rule_run,    \* one run of withRuleDefinition: its rule, its requests, its pc
    upload       \* the CAS of this API and of a target API, and the last transfer

mapVars == <<family, desc, node, readerRuns, reqs, queue, registry, cancelled, setterCalls>>
hashVars == <<hash_, hash_loading_, computed, thr>>
evalVars == <<rule_tainted, actions, trees, call>>
jsonVars == <<kMandatory, files, json_values, json_calls>>
cacheVars == <<cacheable, asked>>
traverserVars == <<g, traverser, build_info>>
localVars == <<storage_, action, responses>>
execVars == <<traverserVars, localVars, reader, rule_run, upload>>
sideVars == <<evalVars, jsonVars, cacheVars, execVars>>
\* all but the variables of the execution engine
restVars == <<mapVars, hashVars, evalVars, jsonVars, cacheVars, reader, rule_run, upload>>
\* all but the key in the target reader
outerVars == <<mapVars, hashVars, evalVars, jsonVars, cacheVars, traverserVars, localVars,
               rule_run, upload>>
\* all but the run of withRuleDefinition
besideRun == <<mapVars, hashVars, evalVars, jsonVars, cacheVars, traverserVars, localVars,
               reader, upload>>
\* all but the two CAS
besideUpload == <<mapVars, hashVars, evalVars, jsonVars, cacheVars, traverserVars, localVars,
                  reader, rule_run>>
vars == <<family, desc, node, readerRuns, reqs, queue, registry, cancelled, setterCalls,
          hash_, hash_loading_, computed, thr, rule_tainted, actions, trees, call,
          kMandatory, files, json_values, json_calls, cacheable, asked, g, traverser, build_info,
          storage_, action, responses, reader, rule_run, upload>>

(***************************************************************************)
(* The async keyed map.  Per key: pending, in_progress, ready or failed.  *)
(* A request (consume_after_keys_ready or a sub-caller call) registers    *)
(* its keys one at a time; its continuation is queued as an independent   *)
(* task once every key has delivered its value into its own slot.         *)
(***************************************************************************)
Waves == {"first", "anon", "top"}
ReqIds == (Keys \X {"first", "anon"}) \cup ({TopOwner(i) : i \in 1..MaxTop} \X {"top"})

\* a key without a node is pending; its node is created by the first request
InProgressNode == [state |-> "in_progress", value |-> <<>>, why |-> ""]
StateOf(nd, k) == IF k \in DOMAIN nd THEN nd[k].state ELSE "pending"
StatusOf(rq, id) == IF id \in DOMAIN rq THEN rq[id].status ELSE "none"

Task(kind, owner, wave, val) == [kind |-> kind, owner |-> owner, wave |-> wave, val |-> val]

\* every key of the request has arrived and delivered
Complete(rq) ==
    /\ rq.status = "open"
    /\ rq.pos = Len(rq.keys)
    /\ \A i \in 1..Len(rq.keys) : rq.got[i] # <<>>

\* key k hands value v to the slots of rq that wait for it
Deliver(rq, k, v) ==
    [rq EXCEPT !.got = [i \in 1..Len(rq.keys) |->
        IF i <= rq.pos /\ rq.keys[i] = k /\ rq.got[i] = <<>> THEN <<v>> ELSE rq.got[i]]]

\* queue the continuations of the requests that have become complete
QueueComplete(m) ==
    LET done == {id \in DOMAIN m.reqs : Complete(m.reqs[id])}
    IN  [m EXCEPT !.reqs = [id \in DOMAIN m.reqs |->
                      IF id \in done THEN [m.reqs[id] EXCEPT !.status = "queued"]
                      ELSE m.reqs[id]],
                  !.queue = m.queue \cup {Task("cont", id[1], id[2], <<>>) : id \in done}]

\* the setter of key k: in_progress -> ready(v); ready and failed are terminal
SetValue(m, k, v) ==
    IF StateOf(m.node, k) # "in_progress" THEN m
    ELSE QueueComplete(
           [m EXCEPT !.node[k] = [state |-> "ready", value |-> <<v>>, why |-> ""],
                     !.reqs = [id \in DOMAIN m.reqs |->
                         IF m.reqs[id].status = "open" THEN Deliver(m.reqs[id], k, v)
                         ELSE m.reqs[id]]])

\* rq is registered on, and still waiting for, a key of F
WaitsFor(rq, F) ==
    /\ rq.status = "open"
    /\ \E i \in 1..rq.pos : rq.keys[i] \in F /\ rq.got[i] = <<>>

\* the keys that fail when the keys of F fail: their waiters fail their own keys
RECURSIVE FailClosure(_, _)
FailClosure(rq, F) ==
    LET more == {id[1] : id \in {x \in DOMAIN rq : x[1] \in Keys /\ WaitsFor(rq[x], F)}}
    IN  IF more \subseteq F THEN F ELSE FailClosure(rq, F \cup more)

\* a failure reaches only the keys it is logged for, not their waiters
FailUnnotified(m, S, why) ==
    [m EXCEPT !.node = [k \in DOMAIN m.node |->
                  IF k \in S /\ m.node[k].state = "in_progress"
                    THEN [state |-> "failed", value |-> <<>>, why |-> why]
                    ELSE m.node[k]]]

\* the logger of each key of S is called with fatal = true
Fail(m, S, why) ==
    LET F == FailClosure(m.reqs, {k \in S : StateOf(m.node, k) = "in_progress"})
    IN  [m EXCEPT !.node = [k \in DOMAIN m.node |->
                      IF k \in F /\ m.node[k].state = "in_progress"
                        THEN [state |-> "failed", value |-> <<>>, why |-> why]
                        ELSE m.node[k]],
                  !.reqs = [id \in DOMAIN m.reqs |->
                      IF WaitsFor(m.reqs[id], F)
                        THEN [m.reqs[id] EXCEPT !.status = "failed", !.why = why]
                        ELSE m.reqs[id]]]

\* keys reachable from the keys of S along "waits for" edges
RECURSIVE ReachFrom(_, _)
ReachFrom(rq, S) ==
    LET next == UNION {{rq[id].keys[i] : i \in {j \in 1..rq[id].pos : rq[id].got[j] = <<>>}} :
                       id \in {x \in DOMAIN rq : x[1] \in S /\ rq[x].status = "open"}}
    IN  IF next \subseteq S THEN S ELSE ReachFrom(rq, S \cup next)

\* no request cycle is ever found
CycleThroughNone(rq, owner, k) == {}

\* the keys on a request cycle through the new edge owner -> k
CycleThrough(rq, owner, k) ==
    IF owner \in ReachFrom(rq, {k})
      THEN {x \in ReachFrom(rq, {k}) : owner \in ReachFrom(rq, {x})}
      ELSE {}

\* a call of consume_after_keys_ready / the sub-caller
Issue(m, id, keys, tk, dv) ==
    QueueComplete(
      [m EXCEPT !.reqs = (id :> [status |-> "open", keys |-> keys, pos |-> 0,
                                 got |-> [i \in 1..Len(keys) |-> <<>>],
                                 late |-> FALSE,
                                 tk |-> tk, dv |-> dv, why |-> ""]) @@ m.reqs])

\* the request id reaches its next key
Arrive(m, id) ==
    LET rq == m.reqs[id]
        k == rq.keys[rq.pos + 1]
        st == StateOf(m.node, k)
        at == [m EXCEPT !.reqs[id].pos = rq.pos + 1]
    IN  CASE st = "pending" ->
               [at EXCEPT !.node = (k :> InProgressNode) @@ m.node,
                          !.queue = m.queue \cup {Task("reader", k, "", <<>>)}]
          [] st = "in_progress" ->
               LET cyc == CycleThrough(at.reqs, id[1], k)
               IN  IF cyc = {} THEN at ELSE Fail(at, cyc, "cycle")
          [] st = "ready" ->
               QueueComplete([at EXCEPT !.reqs[id] = Deliver(at.reqs[id], k, m.node[k].value[1])])
          [] OTHER ->
               LET notified == [at EXCEPT !.reqs[id].status = "failed",
                                          !.reqs[id].late = TRUE,
                                          !.reqs[id].why = m.node[k].why]
               IN  IF id[1] \in Keys THEN Fail(notified, {id[1]}, m.node[k].why)
                   ELSE notified

\* a request that reaches a failed key runs its reader again
ArriveRetry(m, id) ==
    LET k == m.reqs[id].keys[m.reqs[id].pos + 1]
    IN  IF StateOf(m.node, k) = "failed"
          THEN [m EXCEPT !.reqs[id].pos = @ + 1,
                         !.node[k] = InProgressNode,
                         !.queue = @ \cup {Task("reader", k, "", <<>>)}]
          ELSE Arrive(m, id)

\* a request that reaches an in_progress key starts its reader once more
ArriveNoOwnership(m, id) ==
    LET k == m.reqs[id].keys[m.reqs[id].pos + 1]
    IN  IF StateOf(m.node, k) = "in_progress"
          THEN [m EXCEPT !.reqs[id].pos = @ + 1,
                         !.queue = @ \cup {Task("reader", k, "", <<>>)}]
          ELSE Arrive(m, id)

\* where the async map hands a request to a key
Request(m, id) == Arrive(m, id)

(***************************************************************************)
(* The result registry.                                                   *)
(***************************************************************************)
RegKey(target, conf) == [target |-> target, config |-> conf]

\* ResultTargetMap::Add: the registry after the call
Add(reg, target, conf, candidate) ==
    IF RegKey(target, conf) \notin DOMAIN reg
      THEN (RegKey(target, conf) :> candidate) @@ reg
      ELSE reg

(***************************************************************************)
(* The target map: CreateTargetMap's reader and its continuations.        *)
(***************************************************************************)
MapState == [node |-> node, reqs |-> reqs, queue |-> queue]

Commit(m) ==
    /\ node' = m.node
    /\ reqs' = m.reqs
    /\ queue' = m.queue

Take(m, task) == [m EXCEPT !.queue = m.queue \ {task}]

DescOf(t) == desc[t][1]

\* the analysed target the source map holds for a file: one object per name
SourceTarget(t) == AnalysedTarget(RegKey(t, EmptyConf), {}, {}, <<>>)

\* every dependency requested in the configuration of the key itself
dependency_keys_untransitioned(d, key) ==
    [i \in 1..(Len(d.trans) * Len(d.deps)) |->
        [target |-> d.deps[((i - 1) % Len(d.deps)) + 1], config |-> key.config]]

\* lines 938-954: one dependency key per (transition, dependency) pair
dependency_keys(d, key) ==
    [i \in 1..(Len(d.trans) * Len(d.deps)) |->
        [target |-> d.deps[((i - 1) % Len(d.deps)) + 1],
         config |-> Update(key.config, d.trans[((i - 1) \div Len(d.deps)) + 1])]]

\* lines 950-952: the same pairs, with the bare transition as configuration
transition_keys(d) ==
    [i \in 1..(Len(d.trans) * Len(d.deps)) |->
        [target |-> d.deps[((i - 1) % Len(d.deps)) + 1],
         config |-> d.trans[((i - 1) \div Len(d.deps)) + 1]]]

RECURSIVE Flatten(_)
Flatten(ss) == IF ss = <<>> THEN <<>> ELSE Head(ss) \o Flatten(Tail(ss))

\* lines 999-1040: the target nodes the first-wave values provide
anon_names(d, values) ==
    IF d.anon THEN Flatten([i \in 1..Len(values) |-> values[i][1].nodes]) ELSE <<>>

\* lines 1042-1054: anonymous keys under the (identity) transition of the field
anonymous_keys(d, key, values) ==
    [i \in 1..Len(anon_names(d, values)) |->
        [target |-> anon_names(d, values)[i], config |-> Update(key.config, EmptyConf)]]

anon_transition_keys(d, values) ==
    [i \in 1..Len(anon_names(d, values)) |->
        [target |-> anon_names(d, values)[i], config |-> EmptyConf]]

\* the i-th transition key is paired with the i-th value from the end
deps_by_transition_reversed(tk, dependency_values) ==
    [x \in Range(tk) |->
        dependency_values[Len(tk) + 1 - CHOOSE i \in 1..Len(tk) :
            tk[i] = x /\ \A j \in 1..(i - 1) : tk[j] # x]]

\* lines 203-209: deps_by_transition, emplace keeps the first value of a key
deps_by_transition(tk, dependency_values) ==
    [x \in Range(tk) |->
        dependency_values[CHOOSE i \in 1..Len(tk) :
            tk[i] = x /\ \A j \in 1..(i - 1) : tk[j] # x]]

\* the variables of the dependencies are taken whether fixed or not
effective_vars_unfiltered(d, tk, dependency_values) ==
    d.tvars \cup d.cvars \cup
    UNION {deps_by_transition(tk, dependency_values)[tr].vars : tr \in Range(tk)}

\* lines 211-223
effective_vars(d, tk, dependency_values) ==
    d.tvars \cup d.cvars \cup
    UNION {{x \in deps_by_transition(tk, dependency_values)[tr].vars :
               ~VariableFixed(tr.config, x)} : tr \in Range(tk)}

\* lines 227-233
tainted(d) == d.texpr \cup d.rtaint

\* only the first dependency is compared with the target's taints
TaintsCoveredFirstOnly(d, dependency_values) ==
    dependency_values = <<>> \/ dependency_values[1].tainted \subseteq tainted(d)

\* lines 234-245
TaintsCovered(d, dependency_values) ==
    \A i \in 1..Len(dependency_values) : dependency_values[i].tainted \subseteq tainted(d)

\* the defining expression is evaluated under the whole configuration
expression_config_unpruned(d, key) == key.config

\* lines 304 and 817: key.config.Prune(config_vars)
expression_config(d, key) == Prune(key.config, d.cvars)

\* lines 266 and 757: key.config.Prune(target_vars)
param_config(d, key) == Prune(key.config, d.tvars)

\* lines 702-718: the RESULT of the defining expression, as everything its
\* evaluation can read: the two pruned configurations and, through the
\* DEP_ functions, the results of the dependencies
result(d, key, dependency_values) ==
    <<[param |-> param_config(d, key),
       conf |-> expression_config(d, key),
       deps |-> [i \in 1..Len(dependency_values) |-> dependency_values[i].result]]>>

\* lines 719-725
analysis_result(d, key, tk, dependency_values) ==
    [AnalysedTarget(key, effective_vars(d, tk, dependency_values), tainted(d), d.nodes)
        EXCEPT !.result = result(d, key, dependency_values)]

\* line 224
effective_conf(d, key, tk, dependency_values) ==
    Prune(key.config, effective_vars(d, tk, dependency_values))

\* the setter is handed the candidate, whatever the registry returned
SetterArgumentCandidate(reg, target, conf, candidate) == candidate

\* lines 726-728: what is handed to the setter
SetterArgument(reg, target, conf, candidate) ==
    Add(reg, target, conf, candidate)[RegKey(target, conf)]

Values(rq) == [i \in 1..Len(rq.got) |-> rq.got[i][1]]

\* the previous top-level call has returned: it has reached all its keys
Returned(id) ==
    /\ id \in DOMAIN reqs
    /\ reqs[id].status = "open" => reqs[id].pos = Len(reqs[id].keys)

\* a top-level consume_after_keys_ready call; the analysis makes these
\* calls one after the other from one thread
TopRequest(i) ==
    /\ StatusOf(reqs, <<TopOwner(i), "top">>) = "none"
    /\ IF i = 1 THEN TRUE ELSE Returned(<<TopOwner(i - 1), "top">>)
    /\ \E ks \in TopKeySeqs(family, i) :
          IF cancelled
            THEN Commit([MapState EXCEPT !.reqs = (<<TopOwner(i), "top">> :>
                     [status |-> "failed", keys |-> ks, pos |-> 0,
                      got |-> [j \in 1..Len(ks) |-> <<>>],
                      late |-> TRUE,
                      tk |-> <<>>, dv |-> <<>>, why |-> "cancel"]) @@ reqs])
            ELSE Commit(Issue(MapState, <<TopOwner(i), "top">>, ks, <<>>, <<>>))
    /\ UNCHANGED <<family, desc, readerRuns, registry, cancelled, setterCalls, hashVars, sideVars>>

\* a request reaches its next key
Register(id) ==
    /\ ~cancelled
    /\ id \in DOMAIN reqs
    /\ reqs[id].status = "open"
    /\ reqs[id].pos < Len(reqs[id].keys)
    /\ Commit(Request(MapState, id))
    /\ UNCHANGED <<family, desc, readerRuns, registry, cancelled, setterCalls, hashVars, sideVars>>

\* lines 1378-1455, with the lookups of withTargetNode and withTargetsFile
target_reader(key) ==
    LET task == Task("reader", key, "", <<>>)
        t == key.target
    IN
    /\ ~cancelled
    /\ task \in queue
    /\ readerRuns' = [readerRuns EXCEPT ![key.target] = Append(@, key.config)]
    /\ \E d \in (IF desc[t] = <<>> THEN Menu(family, t) ELSE {DescOf(t)}) :
          /\ desc' = [desc EXCEPT ![t] = <<d>>]
          /\ CASE d.kind = "value" ->
                    /\ Commit(SetValue(Take(MapState, task), key,
                                       AnalysedTarget(key, {}, {}, <<>>)))
                    /\ setterCalls' = Append(setterCalls, <<key, AnalysedTarget(key, {}, {}, <<>>)>>)
               [] d.kind = "source" ->
                    /\ Commit(SetValue(Take(MapState, task), key, SourceTarget(t)))
                    /\ setterCalls' = Append(setterCalls, <<key, SourceTarget(t)>>)
               [] d.kind = "missing" ->
                    /\ Commit(Fail(Take(MapState, task), {key}, "io"))
                    /\ UNCHANGED setterCalls
               [] OTHER ->
                    /\ Commit([Take(MapState, task) EXCEPT
                                 !.queue = @ \cup {Task("rule", key, "", <<>>)}])
                    /\ UNCHANGED setterCalls
    /\ UNCHANGED <<family, registry, cancelled, hashVars, sideVars>>

\* the anonymous wave issued together with the first one
withRuleDefinitionBothWaves(key) ==
    LET task == Task("rule", key, "", <<>>)
        d == DescOf(key.target)
    IN
    /\ ~cancelled
    /\ task \in queue
    /\ Commit(Issue(Issue(Take(MapState, task), <<key, "first">>,
                          dependency_keys(d, key), transition_keys(d), <<>>),
                    <<key, "anon">>, <<>>, transition_keys(d), <<>>))
    /\ UNCHANGED <<family, desc, readerRuns, registry, cancelled, setterCalls, hashVars, sideVars>>

\* lines 749-1085 up to the first sub-caller call
withRuleDefinition(key) ==
    LET task == Task("rule", key, "", <<>>)
        d == DescOf(key.target)
    IN
    /\ ~cancelled
    /\ task \in queue
    /\ Commit(Issue(Take(MapState, task), <<key, "first">>,
                    dependency_keys(d, key), transition_keys(d), <<>>))
    /\ UNCHANGED <<family, desc, readerRuns, registry, cancelled, setterCalls, hashVars, sideVars>>

\* lines 994-1083: the continuation of the first wave
resolveAnonymous(key) ==
    LET task == Task("cont", key, "first", <<>>)
        d == DescOf(key.target)
        rq == reqs[<<key, "first">>]
        done == [Take(MapState, task) EXCEPT !.reqs[<<key, "first">>].status = "done"]
    IN
    /\ ~cancelled
    /\ task \in queue
    /\ Commit(Issue(done, <<key, "anon">>,
                    anonymous_keys(d, key, rq.got),
                    rq.tk \o anon_transition_keys(d, rq.got),
                    Values(rq)))
    /\ UNCHANGED <<family, desc, readerRuns, registry, cancelled, setterCalls, hashVars, sideVars>>

\* lines 1068-1081 and 193-727: the continuation of the anonymous wave
withDependencies(key) ==
    LET task == Task("cont", key, "anon", <<>>)
        d == DescOf(key.target)
        rq == reqs[<<key, "anon">>]
        dependency_values == rq.dv \o Values(rq)
        done == [Take(MapState, task) EXCEPT !.reqs[<<key, "anon">>].status = "done"]
        conf == effective_conf(d, key, rq.tk, dependency_values)
        cand == analysis_result(d, key, rq.tk, dependency_values)
    IN
    /\ ~cancelled
    /\ task \in queue
    /\ IF ~TaintsCovered(d, dependency_values)
         THEN /\ Commit(Fail(done, {key}, "taint"))
              /\ UNCHANGED registry
         ELSE /\ registry' = Add(registry, key.target, conf, cand)
              /\ Commit([done EXCEPT !.queue = @ \cup
                    {Task("setter", key, "", <<SetterArgument(registry, key.target, conf, cand)>>)}])
    /\ UNCHANGED <<family, desc, readerRuns, cancelled, setterCalls, hashVars, sideVars>>

\* the analysis ends without the setter being called
callSetterLost(key) ==
    /\ ~cancelled
    /\ \E task \in queue :
          /\ task.kind = "setter"
          /\ task.owner = key
          /\ Commit(Take(MapState, task))
    /\ UNCHANGED <<family, desc, readerRuns, registry, cancelled, setterCalls, hashVars, sideVars>>

\* line 728: (*setter)(std::move(analysis_result))
callSetter(key) ==
    /\ ~cancelled
    /\ \E task \in queue :
          /\ task.kind = "setter"
          /\ task.owner = key
          /\ Commit(SetValue(Take(MapState, task), key, task.val[1]))
          /\ setterCalls' = Append(setterCalls, <<key, task.val[1]>>)
    /\ UNCHANGED <<family, desc, readerRuns, registry, cancelled, hashVars, sideVars>>

\* the continuation of a top-level call receives the values
topConsumer(i) ==
    LET task == Task("cont", TopOwner(i), "top", <<>>)
    IN
    /\ ~cancelled
    /\ task \in queue
    /\ Commit([Take(MapState, task) EXCEPT !.reqs[<<TopOwner(i), "top">>].status = "done"])
    /\ UNCHANGED <<family, desc, readerRuns, registry, cancelled, setterCalls, hashVars, sideVars>>

\* the abort fails the keys but leaves the requests and the queue alone
CancelKeepsTasks ==
    /\ ~cancelled
    /\ DOMAIN reqs # {}
    /\ cancelled' = TRUE
    /\ node' = [k \in Keys |->
                  IF StateOf(node, k) \in {"pending", "in_progress"}
                    THEN [state |-> "failed", value |-> <<>>, why |-> "cancel"]
                    ELSE node[k]]
    /\ UNCHANGED <<family, desc, readerRuns, reqs, queue, registry, setterCalls, hashVars, sideVars>>

\* the owning analysis run is aborted: the run-wide flag fails every key
\* that is pending or in progress and discards what is outstanding
Cancel ==
    /\ ~cancelled
    /\ DOMAIN reqs # {}
    /\ cancelled' = TRUE
    /\ node' = [k \in Keys |->
                  IF StateOf(node, k) \in {"pending", "in_progress"}
                    THEN [state |-> "failed", value |-> <<>>, why |-> "cancel"]
                    ELSE node[k]]
    /\ reqs' = [id \in DOMAIN reqs |->
                  IF reqs[id].status \in {"open", "queued"}
                    THEN [reqs[id] EXCEPT !.status = "dropped", !.why = "cancel"]
                    ELSE reqs[id]]
    /\ queue' = {}
    /\ UNCHANGED <<family, desc, readerRuns, registry, setterCalls, hashVars, sideVars>>

InitMap(fam) ==
    /\ family = fam
    /\ desc = [t \in Targets |-> <<>>]
    /\ node = <<>>
    /\ readerRuns = [t \in Targets |-> <<>>]
    /\ reqs = <<>>
    /\ queue = {}
    /\ registry = <<>>
    /\ cancelled = FALSE
    /\ setterCalls = <<>>

(***************************************************************************)
(* Expression::ToHash: the memoised structural hash.  "L" is a list whose *)
(* only element is the string "E", so ComputeHash of "L" calls            *)
(* ToHash of "E".  A null hash_ is <<>>.                                  *)
(***************************************************************************)
Exprs == {"L", "E"}
Threads == 1..MaxThreads
Children(e) == IF e = "L" THEN <<"E">> ELSE <<>>

\* hash_gen_.Run(ToString()) of an atom
AtomDigest(e) == <<"H", e>>
\* the incremental hash of "[" followed by the element hashes
ListDigest(hashes) == <<"H", "[">> \o hashes

Frame(e, pc) == [e |-> e, pc |-> pc, acc |-> <<>>]
Top(t) == thr[t].stack[Len(thr[t].stack)]
At(t, pc) == thr[t].stack # <<>> /\ Top(t).pc = pc
Goto(t, pc) == [thr EXCEPT ![t].stack[Len(thr[t].stack)].pc = pc]

InitHash ==
    /\ hash_ = [e \in Exprs |-> <<>>]
    /\ hash_loading_ = [e \in Exprs |-> FALSE]
    /\ computed = [e \in Exprs |-> [runs |-> 0, stores |-> 0]]
    /\ thr = [t \in Threads |-> [stack |-> <<>>, called |-> <<>>, ret |-> <<>>]]

\* a thread calls ToHash on an expression
CallToHash(t, e) ==
    /\ thr[t].called = <<>>
    /\ thr' = [thr EXCEPT ![t].stack = <<Frame(e, "load")>>, ![t].called = <<e>>]
    /\ UNCHANGED <<hash_, hash_loading_, computed, mapVars, sideVars>>

\* line 146: if (hash_.load() == nullptr)
LoadHash(t) ==
    /\ At(t, "load")
    /\ thr' = Goto(t, IF hash_[Top(t).e] = <<>> THEN "exchange" ELSE "ret")
    /\ UNCHANGED <<hash_, hash_loading_, computed, mapVars, sideVars>>

\* the flag is set, but the value it had is not looked at
ExchangeLoadingUnchecked(t) ==
    /\ At(t, "exchange")
    /\ hash_loading_' = [hash_loading_ EXCEPT ![Top(t).e] = TRUE]
    /\ thr' = Goto(t, "compute")
    /\ computed' = [computed EXCEPT ![Top(t).e].runs = @ + 1]
    /\ UNCHANGED <<hash_, mapVars, sideVars>>

\* line 147: if (not hash_loading_.exchange(true))
ExchangeLoading(t) ==
    /\ At(t, "exchange")
    /\ hash_loading_' = [hash_loading_ EXCEPT ![Top(t).e] = TRUE]
    /\ IF hash_loading_[Top(t).e]
         THEN /\ thr' = Goto(t, "wait")
              /\ UNCHANGED computed
         ELSE /\ thr' = Goto(t, "compute")
              /\ computed' = [computed EXCEPT ![Top(t).e].runs = @ + 1]
    /\ UNCHANGED <<hash_, mapVars, sideVars>>

\* lines 212-249: ComputeHash, which calls ToHash of the elements of a list
ComputeHash(t) ==
    /\ At(t, "compute")
    /\ LET f == Top(t)
           n == Len(thr[t].stack)
       IN  IF Children(f.e) = <<>>
             THEN thr' = [thr EXCEPT ![t].stack[n].acc = AtomDigest(f.e),
                                     ![t].stack[n].pc = "store"]
             ELSE thr' = [thr EXCEPT ![t].stack[n].pc = "inner",
                                     ![t].stack = Append(@, Frame(Children(f.e)[1], "load"))]
    /\ UNCHANGED <<hash_, hash_loading_, computed, mapVars, sideVars>>

\* line 148: hash_ = std::make_shared<std::string>(ComputeHash())
StoreHash(t) ==
    /\ At(t, "store")
    /\ hash_' = [hash_ EXCEPT ![Top(t).e] = <<Top(t).acc>>]
    /\ computed' = [computed EXCEPT ![Top(t).e].stores = @ + 1]
    /\ thr' = Goto(t, "notify")
    /\ UNCHANGED <<hash_loading_, mapVars, sideVars>>

\* line 149: hash_.notify_all()
NotifyAll(t) ==
    /\ At(t, "notify")
    /\ thr' = [u \in Threads |->
                 IF u = t THEN Goto(t, "ret")[t]
                 ELSE IF At(u, "blocked") /\ Top(u).e = Top(t).e THEN Goto(u, "wait")[u]
                 ELSE thr[u]]
    /\ UNCHANGED <<hash_, hash_loading_, computed, mapVars, sideVars>>

\* the caller blocks without comparing the slot with nullptr
WaitHashBlind(t) ==
    /\ At(t, "wait")
    /\ thr' = Goto(t, "blocked")
    /\ UNCHANGED <<hash_, hash_loading_, computed, mapVars, sideVars>>

\* line 152: hash_.wait(nullptr) compares and blocks in one step
WaitHash(t) ==
    /\ At(t, "wait")
    /\ thr' = Goto(t, IF hash_[Top(t).e] = <<>> THEN "blocked" ELSE "ret")
    /\ UNCHANGED <<hash_, hash_loading_, computed, mapVars, sideVars>>

\* line 155: return *hash_.load()
ReturnHash(t) ==
    /\ At(t, "ret")
    /\ LET n == Len(thr[t].stack)
           h == hash_[Top(t).e]
       IN  IF n = 1
             THEN thr' = [thr EXCEPT ![t].stack = <<>>, ![t].ret = <<h>>]
             ELSE thr' = [thr EXCEPT ![t].stack = SubSeq(@, 1, n - 1),
                                     ![t].stack[n - 1].acc = ListDigest(h),
                                     ![t].stack[n - 1].pc = "store"]
    /\ UNCHANGED <<hash_, hash_loading_, computed, mapVars, sideVars>>

(***************************************************************************)
(* The function table of the defining expression: ACTION and TREE.        *)
(* Expression values are tagged records; a path is the sequence of its    *)
(* components, "" being the empty sequence.                               *)
(***************************************************************************)
Str(x) == [type |-> "string", s |-> x, l |-> <<>>, m |-> <<>>]
Num == [type |-> "number", s |-> "7", l |-> <<>>, m |-> <<>>]
List(xs) == [type |-> "list", s |-> "", l |-> xs, m |-> <<>>]
\* a map is the sequence of its <<key, value>> entries, keys pairwise different
Map(entries) == [type |-> "map", s |-> "", l |-> <<>>, m |-> entries]
MapKeys(e) == {e.m[i][1] : i \in 1..Len(e.m)}
MapValues(e) == {e.m[i][2] : i \in 1..Len(e.m)}
Artifact(kind) == [type |-> "artifact", s |-> kind, l |-> <<>>, m |-> <<>>]
IsString(e) == e.type = "string"
IsList(e) == e.type = "list"
IsMap(e) == e.type = "map"
IsArtifact(e) == e.type = "artifact"
IsTree(e) == e.type = "artifact" /\ e.s = "tree"

\* std::filesystem::path::lexically_normal on components: "." is dropped,
\* "name/.." cancels, ".." right after the root directory "/" is dropped, a
\* leading ".." stays, and what would be empty is "."
RECURSIVE Normal(_, _)
Normal(done, rest) ==
    IF rest = <<>> THEN done
    ELSE IF Head(rest) = "." THEN Normal(done, Tail(rest))
    ELSE IF Head(rest) = ".." /\ done # <<>> /\ done[Len(done)] = "/"
      THEN Normal(done, Tail(rest))
    ELSE IF Head(rest) = ".." /\ done # <<>> /\ done[Len(done)] # ".."
      THEN Normal(SubSeq(done, 1, Len(done) - 1), Tail(rest))
    ELSE Normal(Append(done, Head(rest)), Tail(rest))

\* the path taken as written
lexically_normal_verbatim(path) == path

lexically_normal(path) ==
    IF path = <<>> THEN <<>>
    ELSE IF Normal(<<>>, path) = <<>> THEN <<".">> ELSE Normal(<<>>, path)

\* p is a strict prefix of q along component boundaries
StrictPrefix(p, q) == Len(p) < Len(q) /\ SubSeq(q, 1, Len(p)) = p

\* Utils::tree_conflict: two entries, one's path a strict prefix of the other's
tree_conflict(e) ==
    \E p, q \in MapKeys(e) : StrictPrefix(lexically_normal(p), lexically_normal(q))

\* lines 21-39: ReadActionOutputExpr accepts a list of strings
OutputsReadable(e) == IsList(e) /\ \A i \in 1..Len(e.l) : IsString(e.l[i])

\* the lookup in rule->Tainted() left out
TaintListAcceptedAny(e, tainted_) ==
    /\ IsList(e)
    /\ \A i \in 1..Len(e.l) : IsString(e.l[i])

\* a list of strings, each a taint of the rule (lines 435-453, 468-486)
TaintListAccepted(e, tainted_) ==
    /\ IsList(e)
    /\ \A i \in 1..Len(e.l) : IsString(e.l[i]) /\ e.l[i].s \in tainted_

OutNames == <<"o1", "o2">>
Copies(x, n) == [i \in 1..n |-> x]
\* lines 383-384: std::sort of the output names
SortedOuts(e) ==
    Copies(OutNames[1], Cardinality({i \in 1..Len(e.l) : e.l[i].s = OutNames[1]}))
    \o Copies(OutNames[2], Cardinality({i \in 1..Len(e.l) : e.l[i].s = OutNames[2]}))

\* the intersection test left out
OutputsDisjointUnchecked(arg) == TRUE

\* lines 383-392: std::set_intersection of the sorted outs and out_dirs is empty
OutputsDisjoint(arg) ==
    Range(SortedOuts(arg.outs)) \cap Range(SortedOuts(arg.out_dirs)) = {}

\* lines 353-490: the checks of ACTION in the order of the code; "" when
\* the call passes all of them
ActionError(arg, tainted_) ==
    IF ~IsMap(arg.inputs) THEN "inputs has to be a map"
    ELSE IF \E e \in MapValues(arg.inputs) : ~IsArtifact(e)
      THEN "inputs has to be a map of artifacts"
    ELSE IF tree_conflict(arg.inputs) THEN "inputs conflicts on subtree"
    ELSE IF ~OutputsReadable(arg.outs) THEN "outs has to be a list of strings"
    ELSE IF ~OutputsReadable(arg.out_dirs) THEN "out_dirs has to be a list of strings"
    ELSE IF arg.outs.l = <<>> /\ arg.out_dirs.l = <<>>
      THEN "either outs or out_dirs must be specified"
    ELSE IF ~OutputsDisjoint(arg)
      THEN "outs and out_dirs must be disjoint"
    ELSE IF ~IsList(arg.cmd) THEN "cmd has to be a list of strings"
    ELSE IF arg.cmd.l = <<>> THEN "cmd must not be an empty list"
    ELSE IF \E i \in 1..Len(arg.cmd.l) : ~IsString(arg.cmd.l[i])
      THEN "cmd has to be a list of strings"
    ELSE IF ~IsMap(arg.env) THEN "env has to be a map of string"
    ELSE IF \E e \in MapValues(arg.env) : ~IsString(e)
      THEN "env has to be a map of string"
    ELSE IF ~TaintListAccepted(arg.may_fail, tainted_) THEN "may_fail"
    ELSE IF arg.may_fail.l # <<>> /\ ~IsString(arg.fail_message)
      THEN "fail_message has to evaluate to a string"
    ELSE IF ~TaintListAccepted(arg.no_cache, tainted_) THEN "no_cache"
    ELSE ""

\* lines 491-498: Utils::createAction(outputs, output_dirs, cmd, env,
\* may_fail, no_cache, inputs)
createAction(arg) ==
    [outs |-> SortedOuts(arg.outs),
     out_dirs |-> SortedOuts(arg.out_dirs),
     cmd |-> arg.cmd.l,
     env |-> arg.env,
     may_fail |-> IF arg.may_fail.l = <<>> THEN <<>> ELSE <<arg.fail_message.s>>,
     no_cache |-> arg.no_cache.l # <<>>,
     inputs |-> arg.inputs]

\* line 499: action->Id(), the hash of the action's canonical serialisation
Id(a) == [hash_of |-> a]

\* ArtifactDescription{action_id, path}: an action-output artifact
ActionOutput(action_id, path) == [type |-> "ACTION", id |-> action_id, path |-> path]

\* result.emplace(out, ...) for each name: a key already there is kept
RECURSIVE emplace_outputs(_, _, _)
emplace_outputs(res, names, action_id) ==
    IF names = <<>> THEN res
    ELSE emplace_outputs(
           IF \E i \in 1..Len(res) : res[i][1] = Head(names) THEN res
           ELSE Append(res, <<Head(names), ActionOutput(action_id, Head(names))>>),
           Tail(names), action_id)

\* the output directories are left out of the map
action_result_outs_only(a) == emplace_outputs(<<>>, a.outs, Id(a))

\* lines 499-512: the map ACTION returns
action_result(a) ==
    emplace_outputs(emplace_outputs(<<>>, a.outs, Id(a)), a.out_dirs, Id(a))

\* paths that occur as keys of TREE arguments, in the order of the map
TreePaths == << <<>>, <<".">>, <<"a">>, <<"a", "..">>, <<"a", "b">> >>
EntryKinds == {Artifact("file"), Artifact("tree"), Str("x")}

\* an ACTION call that passes every check when the rule is tainted with "t"
GoodAction ==
    [inputs |-> Map(<< <<<<"a">>, Artifact("file")>> >>),
     outs |-> List(<<Str("o1")>>),
     out_dirs |-> List(<<>>),
     cmd |-> List(<<Str("sh")>>),
     env |-> Map(<<>>),
     may_fail |-> List(<<>>),
     fail_message |-> Str("action failed"),
     no_cache |-> List(<<>>)]

ActionArgSpace ==
    [inputs : {Num, Map(<< <<<<"a">>, Artifact("file")>> >>),
               Map(<< <<<<"a">>, Artifact("tree")>>, <<<<"c">>, Artifact("tree")>> >>),
               Map(<< <<<<"a">>, Artifact("file")>>, <<<<"a", "b">>, Artifact("file")>> >>),
               Map(<< <<<<"c">>, Str("x")>> >>)},
     outs : {List(<<>>), List(<<Str("o1")>>), List(<<Str("o2"), Str("o1")>>),
             List(<<Num>>)},
     out_dirs : {Num, List(<<>>), List(<<Str("o1")>>), List(<<Str("o2")>>)},
     cmd : {Num, List(<<>>), List(<<Str("sh")>>), List(<<Num>>)},
     env : {Map(<<>>), Map(<< <<<<"V">>, Num>> >>)},
     may_fail : {Num, List(<<>>), List(<<Str("t")>>), List(<<Str("u")>>)},
     fail_message : {Str("action failed"), Num},
     no_cache : {List(<<>>), List(<<Str("t")>>), List(<<Str("u")>>), List(<<Num>>)}]

ArgFields == {"inputs", "outs", "out_dirs", "cmd", "env", "may_fail", "fail_message",
              "no_cache"}

\* the arguments checked together: inputs, cmd and env; the outputs; the taints
ArgGroups == {{"inputs", "cmd", "env"}, {"outs", "out_dirs"},
              {"may_fail", "fail_message", "no_cache"}}

\* the calls tried: those that differ from GoodAction within one group
ActionArgs ==
    {a \in ActionArgSpace :
        \E grp \in ArgGroups : \A f \in ArgFields \ grp : a[f] = GoodAction[f]}

TreeArgs ==
    {Num, Map(<<>>)}
    \cup {Map(<< <<TreePaths[i], e>> >>) : i \in 1..Len(TreePaths), e \in EntryKinds}
    \cup UNION {{Map(<< <<TreePaths[ij[1]], e>>, <<TreePaths[ij[2]], f>> >>) :
                    e \in EntryKinds, f \in EntryKinds} :
                 ij \in {x \in (1..Len(TreePaths)) \X (1..Len(TreePaths)) : x[1] < x[2]}}

NCalls == IF call = <<>> THEN 0 ELSE call[1].n

\* the rule whose defining expression is evaluated carries any set of taints
InitEval ==
    /\ rule_tainted \in SUBSET Taints
    /\ actions = <<>>
    /\ trees = <<>>
    /\ call = <<>>

\* lines 353-421 and 435-521: ACTION
CallACTION(arg) ==
    /\ NCalls < MaxCalls
    /\ LET err == ActionError(arg, rule_tainted)
       IN  /\ call' = <<[n |-> NCalls + 1, fn |-> "ACTION", arg |-> arg,
                         out |-> IF err = "" THEN <<"map", action_result(createAction(arg))>>
                                 ELSE <<"error", err>>]>>
           /\ actions' = IF err = "" THEN Append(actions, createAction(arg)) ELSE actions
    /\ UNCHANGED <<rule_tainted, trees, mapVars, hashVars, jsonVars, cacheVars, execVars>>

\* lines 527-573: the outcome of TREE: an error, the entry itself, or a new tree
TreeOutcome(val) ==
    IF ~IsMap(val) THEN <<"error">>
    ELSE IF \E e \in MapValues(val) : ~IsArtifact(e) THEN <<"error">>
    ELSE IF \E p \in MapKeys(val) : lexically_normal(p) \in {<<".">>, <<>>}
      THEN IF Len(val.m) > 1 THEN <<"error">>
           ELSE IF IsTree(val.m[1][2]) THEN <<"entry", val.m[1][2]>> ELSE <<"error">>
    ELSE IF tree_conflict(val) THEN <<"error">>
    ELSE <<"tree", Map([i \in 1..Len(val.m) |->
                          <<lexically_normal(val.m[i][1]), val.m[i][2]>>])>>

\* lines 527-573: TREE
CallTREE(val) ==
    /\ NCalls < MaxCalls
    /\ LET out == TreeOutcome(val)
       IN  /\ call' = <<[n |-> NCalls + 1, fn |-> "TREE", arg |-> val, out |-> out]>>
           /\ trees' = IF out[1] = "tree" THEN Append(trees, out[2]) ELSE trees
    /\ UNCHANGED <<rule_tainted, actions, mapVars, hashVars, jsonVars, cacheVars, execVars>>

(***************************************************************************)
(* CreateJsonFileMap: the reader of the JSON file maps.  A path is the    *)
(* sequence of its components, the root directory being the component "/".*)
(***************************************************************************)
Repositories == {"main", "other"}
\* RepositoryConfig: the root and the file name are known for "main" only
get_root(repository) == IF repository = "main" THEN <<"root">> ELSE <<>>
get_name(repository) == IF repository = "main" THEN <<"TARGETS">> ELSE <<>>

ModulePaths == {<<>>, <<".">>, <<"a">>, <<"a", "..">>, <<"..", "a">>,
                <<"a", "..", "..">>, <<"/", "a">>, <<"/", "..">>}
ModuleNames == [repository : Repositories, module : ModulePaths]

\* the locations of the file root that hold something
Locations == {<<"TARGETS">>, <<"a", "TARGETS">>}
\* what is at a location: nothing, a directory, a file that cannot be read,
\* or a readable file with this text
FileStates == {"absent", "directory", "unreadable", "{", "[1]", "{}", "{\"a\": 1}"}

\* path::is_absolute
is_absolute(path) == path # <<>> /\ path[1] = "/"
\* *path.begin(): the first component; the empty path yields an empty element
begin(path) == IF path = <<>> THEN "" ELSE path[1]

\* FileRoot::IsFile and FileRoot::ReadFile
IsFile(path) ==
    /\ lexically_normal(path) \in Locations
    /\ files[lexically_normal(path)] \notin {"absent", "directory"}
ReadFile(path) ==
    IF files[lexically_normal(path)] = "unreadable" THEN <<>>
    ELSE <<files[lexically_normal(path)]>>

\* nlohmann::json values: the kind and, for an object, its member names
Json(kind, members) == [kind |-> kind, members |-> members]
\* nlohmann::json::parse(text, nullptr, false)
parse(text) ==
    CASE text = "{}" -> Json("object", {})
      [] text = "{\"a\": 1}" -> Json("object", {"a"})
      [] text = "[1]" -> Json("array", {})
      [] OTHER -> Json("discarded", {})

Outcome(status, value, msg, access) ==
    [status |-> status, value |-> value, msg |-> msg, access |-> access]

\* the module of the key as it is written
module_verbatim(key) == key.module

\* line 44: std::filesystem::path{key.module}.lexically_normal()
module(key) == lexically_normal(key.module)

\* a missing file fails the key whatever the map was declared as
missing_file_fails(mandatory, probe) == Outcome("failed", <<>>, "does not exist", probe)

\* lines 54-64: the file does not exist
missing_file(mandatory, probe) ==
    IF mandatory THEN Outcome("failed", <<>>, "does not exist", probe)
    ELSE Outcome("set", <<Json("object", {})>>, "", probe)

\* lines 29-87: what the reader does for a key: the setter call or the fatal
\* log message it ends in, and the accesses to the file root on the way
json_file_reader(mandatory, key) ==
    LET json_file_path == module(key) \o get_name(key.repository)
        probe == << <<"IsFile", json_file_path>> >>
        read == Append(probe, <<"ReadFile", json_file_path>>)
    IN  IF get_root(key.repository) = <<>> \/ get_name(key.repository) = <<>>
          THEN Outcome("failed", <<>>, "Cannot determine root or JSON file name", <<>>)
        ELSE IF is_absolute(module(key)) \/ begin(module(key)) = ".."
          THEN Outcome("failed", <<>>, "Modules have to live inside their repository", <<>>)
        ELSE IF ~IsFile(json_file_path) THEN missing_file(mandatory, probe)
        ELSE IF ReadFile(json_file_path) = <<>>
          THEN Outcome("failed", <<>>, "cannot read JSON file", read)
        ELSE IF parse(ReadFile(json_file_path)[1]).kind = "discarded"
          THEN Outcome("failed", <<>>, "does not contain valid JSON", read)
        ELSE IF parse(ReadFile(json_file_path)[1]).kind # "object"
          THEN Outcome("failed", <<>>, "is not an object", read)
        ELSE Outcome("set", <<parse(ReadFile(json_file_path)[1])>>, "", read)

\* a run of the reader: the calls of setter and logger it has made, in
\* order, and whether it has returned
ReaderRun(calls, returned) == [calls |-> calls, returned |-> returned]
SetterCall(value) == [fn |-> "setter", value |-> <<value>>, msg |-> "", fatal |-> FALSE]
LoggerCall(msg, fatal) == [fn |-> "logger", value |-> <<>>, msg |-> msg, fatal |-> fatal]

\* (*logger)(msg, true); return;
log_fatal(run, msg) == ReaderRun(Append(run.calls, LoggerCall(msg, TRUE)), TRUE)
\* (*setter)(value); return;
set_value(run, value) == ReaderRun(Append(run.calls, SetterCall(value)), TRUE)

\* the file cannot be read and the reader returns without a word
cannot_read_silent(run, file_content) ==
    IF run.returned \/ file_content # <<>> THEN run
    ELSE ReaderRun(run.calls, TRUE)

\* lines 67-72: if (not file_content) { (*logger)(..., true); return; }
cannot_read(run, file_content) ==
    IF run.returned \/ file_content # <<>> THEN run
    ELSE log_fatal(run, "cannot read JSON file")

\* lines 29-87: the reader statement by statement: each statement is skipped
\* once the reader has returned
json_file_reader_calls(mandatory, key) ==
    LET json_file_path == module(key) \o get_name(key.repository)
        entered == ReaderRun(<<>>, FALSE)
        \* lines 37-43
        known == IF get_root(key.repository) = <<>> \/ get_name(key.repository) = <<>>
                   THEN log_fatal(entered, "Cannot determine root or JSON file name")
                   ELSE entered
        \* lines 44-51
        inside == IF known.returned THEN known
                  ELSE IF is_absolute(module(key)) \/ begin(module(key)) = ".."
                    THEN log_fatal(known, "Modules have to live inside their repository")
                  ELSE known
        \* lines 54-64
        exists == IF inside.returned THEN inside
                  ELSE IF IsFile(json_file_path) THEN inside
                  ELSE IF mandatory THEN log_fatal(inside, "does not exist")
                  ELSE set_value(inside, Json("object", {}))
        \* lines 66-72
        file_content == IF exists.returned THEN <<>> ELSE ReadFile(json_file_path)
        readable == cannot_read(exists, file_content)
        json == IF readable.returned THEN Json("discarded", {}) ELSE parse(file_content[1])
        \* lines 73-79
        valid == IF readable.returned THEN readable
                 ELSE IF json.kind = "discarded"
                   THEN log_fatal(readable, "does not contain valid JSON")
                 ELSE readable
        \* lines 80-85
        object == IF valid.returned THEN valid
                  ELSE IF json.kind # "object" THEN log_fatal(valid, "is not an object")
                  ELSE valid
    IN  \* line 86
        IF object.returned THEN object.calls ELSE set_value(object, json).calls

InitJson ==
    /\ kMandatory \in BOOLEAN
    /\ files \in [Locations -> FileStates]
    /\ json_values = <<>>
    /\ json_calls = <<>>

\* the map runs its reader once for a key that is requested
ReadJsonFile(key) ==
    /\ key \notin DOMAIN json_values
    /\ Cardinality(DOMAIN json_values) < MaxReads
    /\ json_values' = (key :> json_file_reader(kMandatory, key)) @@ json_values
    /\ json_calls' = (key :> json_file_reader_calls(kMandatory, key)) @@ json_calls
    /\ UNCHANGED <<kMandatory, files, mapVars, hashVars, evalVars, cacheVars, execVars>>

(***************************************************************************)
(* Expression::IsCacheable over names, target results, target nodes and   *)
(* the lists and maps built from them.                                    *)
(***************************************************************************)
Name == [type |-> "name", s |-> "n", l |-> <<>>, m |-> <<>>]
\* TargetResult, with its is_cacheable member
Result(is_cacheable) ==
    [type |-> "result", s |-> IF is_cacheable THEN "cacheable" ELSE "not cacheable",
     l |-> <<>>, m |-> <<>>]
\* TargetNode, with what its IsCacheable() returns
Node(is_cacheable) ==
    [type |-> "node", s |-> IF is_cacheable THEN "cacheable" ELSE "not cacheable",
     l |-> <<>>, m |-> <<>>]
IsName(e) == e.type = "name"
IsResult(e) == e.type = "result"
IsNode(e) == e.type = "node"

\* lists are searched one level deep only
RECURSIVE IsCacheableShallow(_)
IsCacheableShallow(e) ==
    IF IsName(e) THEN FALSE
    ELSE IF IsResult(e) \/ IsNode(e) THEN e.s = "cacheable"
    ELSE IF IsList(e)
      THEN \A i \in 1..Len(e.l) :
              IsList(e.l[i]) \/ IsMap(e.l[i]) \/ IsCacheableShallow(e.l[i])
    ELSE IF IsMap(e) THEN \A i \in 1..Len(e.m) : IsCacheableShallow(e.m[i][2])
    ELSE TRUE

\* lines 113-139
RECURSIVE IsCacheable(_)
IsCacheable(e) ==
    IF IsName(e) THEN FALSE
    ELSE IF IsResult(e) \/ IsNode(e) THEN e.s = "cacheable"
    ELSE IF IsList(e) /\ \E i \in 1..Len(e.l) : ~IsCacheable(e.l[i]) THEN FALSE
    ELSE IF IsMap(e) /\ \E i \in 1..Len(e.m) : ~IsCacheable(e.m[i][2]) THEN FALSE
    ELSE TRUE

CacheLeaves == {Str("x"), Name, Result(TRUE), Result(FALSE), Node(TRUE), Node(FALSE)}

\* the expressions nested at most n deep: lists of up to two entries and
\* maps of one entry
RECURSIVE Nested(_)
Nested(n) ==
    IF n = 0 THEN CacheLeaves
    ELSE Nested(n - 1)
         \cup {List(<<>>)}
         \cup {List(<<x>>) : x \in Nested(n - 1)}
         \cup {List(<<Str("x"), x>>) : x \in Nested(n - 1)}
         \cup {Map(<< <<<<"k">>, x>> >>) : x \in Nested(n - 1)}

CacheExprs == Nested(MaxNest)

InitCache == cacheable \in {[arg |-> e, out |-> <<>>] : e \in CacheExprs}

CallIsCacheable ==
    /\ cacheable.out = <<>>
    /\ cacheable' = [cacheable EXCEPT !.out = <<IsCacheable(cacheable.arg)>>]
    /\ UNCHANGED <<mapVars, hashVars, evalVars, jsonVars, asked, execVars>>

(***************************************************************************)
(* JSON values (nlohmann::json) and Expression::ToJson, FromJson and      *)
(* ComputeHash as functions of the expression.  An object holds its       *)
(* members sorted by key; a text is the sequence of its tokens.           *)
(***************************************************************************)
\* the keys that occur, in ascending order
KeyOrder == <<"artifact_stage", "id", "node_type", "provides", "result", "runfiles",
              "string_fields", "target_fields", "type", "x", "y">>

JNull == [jt |-> "null", s |-> "", a |-> <<>>, o |-> <<>>]
JBool(b) == [jt |-> "boolean", s |-> b, a |-> <<>>, o |-> <<>>]
\* a number is an integer or a floating-point number; s is its value
JInt(n) == [jt |-> "number_integer", s |-> n, a |-> <<>>, o |-> <<>>]
JFloat(n) == [jt |-> "number_float", s |-> n, a |-> <<>>, o |-> <<>>]
JString(x) == [jt |-> "string", s |-> x, a |-> <<>>, o |-> <<>>]
JArray(xs) == [jt |-> "array", s |-> "", a |-> xs, o |-> <<>>]
\* a string given as the sequence of its pieces
JText(pieces) ==
    [jt |-> "string", s |-> "", a |-> [i \in 1..Len(pieces) |-> JString(pieces[i])],
     o |-> <<>>]

\* the members in the order of their keys, as std::map keeps them; of two
\* members with one key the first stays (emplace)
SortMembers(members) ==
    Flatten([k \in 1..Len(KeyOrder) |->
               LET same == SelectSeq(members, LAMBDA p : p[1] = KeyOrder[k])
               IN  IF same = <<>> THEN <<>> ELSE <<same[1]>>])
JObject(members) == [jt |-> "object", s |-> "", a |-> <<>>, o |-> SortMembers(members)]

\* nlohmann::json::dump
RECURSIVE dump(_)
dump(j) ==
    CASE j.jt = "null" -> <<"null">>
      [] j.jt \in {"boolean", "number_integer"} -> <<j.s>>
      [] j.jt = "number_float" -> IF j.s = "0.5" THEN <<j.s>> ELSE <<j.s, ".0">>
      [] j.jt = "string" ->
           <<"\"", j.s>> \o [i \in 1..Len(j.a) |-> j.a[i].s] \o <<"\"">>
      [] j.jt = "array" ->
           <<"[">> \o Flatten([i \in 1..Len(j.a) |-> dump(j.a[i]) \o <<",">>]) \o <<"]">>
      [] OTHER ->
           <<"{">> \o Flatten([i \in 1..Len(j.o) |->
                                 <<"\"", j.o[i][1], "\"", ":">> \o dump(j.o[i][2]) \o <<",">>])
                  \o <<"}">>

None == [type |-> "none", s |-> "", l |-> <<>>, m |-> <<>>]
Bool(b) == [type |-> "bool", s |-> b, l |-> <<>>, m |-> <<>>]
Number(n) == [type |-> "number", s |-> n, l |-> <<>>, m |-> <<>>]
\* TargetResult: artifact_stage, provides, runfiles
TargetResult(artifact_stage, provides, runfiles) ==
    [type |-> "result", s |-> "cacheable", l |-> <<artifact_stage, provides, runfiles>>,
     m |-> <<>>]
\* TargetNode: a value node holds a result, an abstract node its type and fields
ValueNode(res) == [type |-> "node", s |-> "value", l |-> <<res>>, m |-> <<>>]
AbstractNode(string_fields, target_fields) ==
    [type |-> "node", s |-> "abstract", l |-> <<string_fields, target_fields>>, m |-> <<>>]

\* the map taken in the order its entries were inserted
MapEntriesInserted(e) == e.m

\* iteration over map_t: the entries in the order of their keys
MapEntries(e) ==
    Flatten([k \in 1..Len(KeyOrder) |->
               LET same == SelectSeq(e.m, LAMBDA p : p[1] = <<KeyOrder[k]>>)
               IN  IF same = <<>> THEN <<>> ELSE <<same[1]>>])

\* hash_gen_.Run(text).Bytes()
Run(text) == <<"H(">> \o text \o <<")">>

RECURSIVE ToJson(_, _)
RECURSIVE ComputeHashOf(_)

\* the fields of a target result are written in the mode of the caller
result_mode_of_caller(mode) == mode

\* lines 78-81: the mode in which the fields of a target result are written
result_mode(mode) == "SerializeAllButNodes"

\* ToIdentifier(): the hash in hexadecimal
ToIdentifier(e) == <<"hex">> \o ComputeHashOf(e)

\* ArtifactDescription::ToJson and EntityName::ToJson
ArtifactToJson(e) == JObject(<< <<"type", JString(e.s)>> >>)
NameToJson(e) == JArray(<<JString("@"), JString(e.s)>>)
\* TargetNode::ToJson
NodeToJson(e) ==
    IF e.s = "value"
      THEN JObject(<< <<"type", JString("VALUE_NODE")>>,
                      <<"result", ToJson(e.l[1], "SerializeAll")>> >>)
      ELSE JObject(<< <<"type", JString("ABSTRACT_NODE")>>,
                      <<"node_type", JString("t")>>,
                      <<"string_fields", ToJson(e.l[1], "SerializeAll")>>,
                      <<"target_fields", ToJson(e.l[2], "SerializeAll")>> >>)

\* {{"type", "NODE"}, {"id", ToIdentifier()}}
NodeReference(e) == JObject(<< <<"type", JString("NODE")>>, <<"id", JText(ToIdentifier(e))>> >>)

\* lines 60-111
ToJson(e, mode) ==
    IF e.type = "bool" THEN JBool(e.s)
    ELSE IF e.type = "number" THEN JFloat(e.s)
    ELSE IF e.type = "string" THEN JString(e.s)
    ELSE IF e.type = "artifact" /\ mode # "NullForNonJson" THEN ArtifactToJson(e)
    ELSE IF e.type = "result" /\ mode # "NullForNonJson"
      THEN ToJson(Map(<< <<<<"artifact_stage">>, e.l[1]>>,
                         <<<<"runfiles">>, e.l[3]>>,
                         <<<<"provides">>, e.l[2]>> >>), result_mode(mode))
    ELSE IF e.type = "node" /\ mode = "SerializeAll" THEN NodeToJson(e)
    ELSE IF e.type = "node" /\ mode = "SerializeAllButNodes" THEN NodeReference(e)
    ELSE IF e.type = "list" THEN JArray([i \in 1..Len(e.l) |-> ToJson(e.l[i], mode)])
    ELSE IF e.type = "map"
      THEN JObject([i \in 1..Len(MapEntries(e)) |->
                      <<MapEntries(e)[i][1][1], ToJson(MapEntries(e)[i][2], mode)>>])
    ELSE IF e.type = "name" /\ mode # "NullForNonJson" THEN NameToJson(e)
    ELSE JNull

\* lines 140-142: ToJson().dump()
ExprToString(e) == dump(ToJson(e, "SerializeAll"))

\* lines 215-220: "@" for artifact, "=" for result, "#" for node, "$" for name
Sigil(e) ==
    CASE e.type = "artifact" -> "@"
      [] e.type = "result" -> "="
      [] e.type = "node" -> "#"
      [] e.type = "name" -> "$"
      [] OTHER -> ""

\* lines 212-249
ComputeHashOf(e) ==
    IF e.type = "list"
      THEN <<"H(", "[">> \o Flatten([i \in 1..Len(e.l) |-> ComputeHashOf(e.l[i])]) \o <<")">>
    ELSE IF e.type = "map"
      THEN <<"H(", "{">>
           \o Flatten([i \in 1..Len(MapEntries(e)) |->
                         Run(MapEntries(e)[i][1]) \o ComputeHashOf(MapEntries(e)[i][2])])
           \o <<")">>
    ELSE Run(<<Sigil(e)>> \o ExprToString(e))

\* an integer that no double holds, and the double next to it
BigInteger == "9007199254740993"
BigDouble == "9007199254740992"

\* static_cast<double> of an integer
to_double(n) == IF n = BigInteger THEN BigDouble ELSE n

\* j.get<number_t>()
get_number(j) == IF j.jt = "number_integer" THEN to_double(j.s) ELSE j.s

\* arrays and objects inside an array are left out
RECURSIVE FromJsonFlat(_)
FromJsonFlat(j) ==
    IF j.jt = "null" THEN None
    ELSE IF j.jt = "boolean" THEN Bool(j.s)
    ELSE IF j.jt \in {"number_integer", "number_float"} THEN Number(get_number(j))
    ELSE IF j.jt = "string" THEN Str(j.s)
    ELSE IF j.jt = "array"
      THEN List([i \in 1..Len(j.a) |->
                   IF j.a[i].jt \in {"array", "object"} THEN None
                   ELSE FromJsonFlat(j.a[i])])
    ELSE Map([i \in 1..Len(j.o) |-> << <<j.o[i][1]>>, FromJsonFlat(j.o[i][2])>>])

\* lines 158-193
RECURSIVE FromJson(_)
FromJson(j) ==
    IF j.jt = "null" THEN None
    ELSE IF j.jt = "boolean" THEN Bool(j.s)
    ELSE IF j.jt \in {"number_integer", "number_float"} THEN Number(get_number(j))
    ELSE IF j.jt = "string" THEN Str(j.s)
    ELSE IF j.jt = "array" THEN List([i \in 1..Len(j.a) |-> FromJson(j.a[i])])
    ELSE Map([i \in 1..Len(j.o) |-> << <<j.o[i][1]>>, FromJson(j.o[i][2])>>])

\* nlohmann::json operator==: values of one kind are compared by value, an
\* integer and a floating-point number after the integer is cast to double
RECURSIVE JsonEqual(_, _)
JsonEqual(j, k) ==
    IF j.jt = "number_integer" /\ k.jt = "number_float" THEN to_double(j.s) = k.s
    ELSE IF j.jt = "number_float" /\ k.jt = "number_integer" THEN j.s = to_double(k.s)
    ELSE /\ j.jt = k.jt
         /\ j.jt \in {"boolean", "number_integer", "number_float", "string"} => j.s = k.s
         /\ Len(j.a) = Len(k.a)
         /\ \A i \in 1..Len(j.a) : JsonEqual(j.a[i], k.a[i])
         /\ Len(j.o) = Len(k.o)
         /\ \A i \in 1..Len(j.o) : /\ j.o[i][1] = k.o[i][1]
                                   /\ JsonEqual(j.o[i][2], k.o[i][2])

JsonModes == <<"SerializeAll", "SerializeAllButNodes", "NullForNonJson">>

JsonLeaves == {JNull, JBool("true"), JInt("1"), JInt(BigInteger), JFloat("0.5"), JString("x")}
JsonValues == {JNull, JInt("1"), JFloat("0.5")}

\* the JSON values read: nested at most n deep, arrays of up to two entries
\* and objects of up to two members, given in both orders
RECURSIVE Parsed(_)
Parsed(n) ==
    IF n = 0 THEN JsonLeaves
    ELSE IF n = 1
      THEN JsonLeaves
           \cup {JArray(<<>>), JObject(<<>>)}
           \cup {JArray(<<v>>) : v \in JsonLeaves}
           \cup {JArray(<<v, w>>) : v \in JsonValues, w \in JsonValues}
           \cup {JObject(<< <<"x", v>> >>) : v \in JsonLeaves}
           \cup {JObject(<< <<"y", w>>, <<"x", v>> >>) : v \in JsonValues, w \in JsonValues}
    ELSE Parsed(n - 1)
         \cup {JArray(<<j, JInt("1")>>) : j \in Parsed(n - 1)}
         \cup {JObject(<< <<"y", JString("x")>>, <<"x", j>> >>) : j \in Parsed(n - 1)}

InitFromJson ==
    asked \in {[fn |-> "FromJson", arg |-> <<j>>, out |-> <<>>] : j \in Parsed(MaxNest)}

\* FromJson(j), and ToJson of the expression in each of the modes
CallFromJson ==
    /\ asked.fn = "FromJson"
    /\ asked.out = <<>>
    /\ asked' = [asked EXCEPT !.out = [i \in 1..Len(JsonModes) |->
                                         ToJson(FromJson(asked.arg[1]), JsonModes[i])]]
    /\ UNCHANGED <<mapVars, hashVars, evalVars, jsonVars, cacheable, execVars>>

\* an abstract node, a value node, and a target result that provides an
\* abstract node
NoFields == Map(<<>>)
AnAbstractNode == AbstractNode(NoFields, NoFields)
AValueNode == ValueNode(TargetResult(NoFields, NoFields, NoFields))
AResult == TargetResult(NoFields, Map(<< <<<<"x">>, AnAbstractNode>> >>), NoFields)

ModeLeaves == {None, Bool("true"), Number("1"), Str("x"), Artifact("LOCAL"), Name,
               AnAbstractNode, AValueNode, AResult}

\* the expressions written: the leaves inside lists and maps, at most n deep
RECURSIVE Written(_)
Written(n) ==
    IF n = 0 THEN ModeLeaves
    ELSE Written(n - 1)
         \cup {List(<<e>>) : e \in Written(n - 1)}
         \cup {List(<<Str("x"), e>>) : e \in Written(n - 1)}
         \cup {Map(<< <<<<"x">>, e>> >>) : e \in Written(n - 1)}

InitToJson ==
    asked \in {[fn |-> "ToJson", arg |-> <<e>>, out |-> <<>>] : e \in Written(MaxNest)}

\* ToJson(mode) of the expression, in each of the modes
CallToJson ==
    /\ asked.fn = "ToJson"
    /\ asked.out = <<>>
    /\ asked' = [asked EXCEPT !.out = [i \in 1..Len(JsonModes) |->
                                         ToJson(asked.arg[1], JsonModes[i])]]
    /\ UNCHANGED <<mapVars, hashVars, evalVars, jsonVars, cacheable, execVars>>

HashLeaves == {None, Number("1"), Str("x"), Name}
HashValues == {Number("1"), Str("x")}

\* the expressions hashed: nested at most n deep, every map of two entries
\* built in both orders of insertion
RECURSIVE Built(_)
Built(n) ==
    IF n = 0 THEN HashLeaves
    ELSE IF n = 1
      THEN HashLeaves
           \cup {List(<<v>>) : v \in HashLeaves}
           \cup {Map(<< <<<<"x">>, v>> >>) : v \in HashLeaves}
           \cup {Map(<< <<<<"x">>, v>>, <<<<"y">>, w>> >>) : v \in HashValues, w \in HashValues}
           \cup {Map(<< <<<<"y">>, w>>, <<<<"x">>, v>> >>) : v \in HashValues, w \in HashValues}
    ELSE Built(n - 1)
         \cup {List(<<e>>) : e \in Built(n - 1)}
         \cup {Map(<< <<<<"x">>, e>>, <<<<"y">>, Number("1")>> >>) : e \in Built(n - 1)}
         \cup {Map(<< <<<<"y">>, Number("1")>>, <<<<"x">>, e>> >>) : e \in Built(n - 1)}

InitToHash ==
    asked \in {[fn |-> "ToHash", arg |-> <<a, b>>, out |-> <<>>] :
                 a \in Built(MaxNest), b \in Built(MaxNest)}

\* the hashes of the two expressions are computed
CallComputeHash ==
    /\ asked.fn = "ToHash"
    /\ asked.out = <<>>
    /\ asked' = [asked EXCEPT !.out = <<ComputeHashOf(asked.arg[1]),
                                        ComputeHashOf(asked.arg[2])>>]
    /\ UNCHANGED <<mapVars, hashVars, evalVars, jsonVars, cacheable, execVars>>

(***************************************************************************)
(* The traverser over a dependency graph, with the executor and the       *)
(* build information of its tests.  A graph gives for each action its     *)
(* outputs and its inputs; an artifact no action outputs is local.        *)
(***************************************************************************)
\* lines 661-697: lib2 depends on lib1, executable depends on lib1 and lib2
LibGraph ==
    [make_exe |-> [outputs |-> {"executable"}, inputs |-> {"main.cpp", "lib1", "lib2"}],
     make_lib1 |-> [outputs |-> {"lib1"}, inputs |-> {"lib1.hpp", "lib1.cpp"}],
     make_lib2 |-> [outputs |-> {"lib2"}, inputs |-> {"lib1", "lib2.hpp", "lib2.cpp"}]]

\* lines 466-480 and 560-582: an action with two outputs and one local
\* input, and an action depending on each of the outputs
OutputsGraph ==
    [make_outputs |-> [outputs |-> {"output1", "output2"}, inputs |-> {"dep"}],
     consumer1 |-> [outputs |-> {"exec1"}, inputs |-> {"output1"}],
     consumer2 |-> [outputs |-> {"exec2"}, inputs |-> {"output2"}]]

GraphNames == {"lib", "outputs"}
Graph == IF g = "lib" THEN LibGraph ELSE OutputsGraph

ActionNodes == DOMAIN Graph
\* ArtifactsToBeBuilt and LocalArtifacts of TestProject
ArtifactsToBeBuilt == UNION {Graph[a].outputs : a \in ActionNodes}
LocalArtifacts == UNION {Graph[a].inputs : a \in ActionNodes} \ ArtifactsToBeBuilt
ArtifactNodes == ArtifactsToBeBuilt \cup LocalArtifacts

\* the action that builds an artifact, and the actions an artifact is input of
Builder(artifact) == CHOOSE a \in ActionNodes : artifact \in Graph[a].outputs
Parents(artifact) == {a \in ActionNodes : artifact \in Graph[a].inputs}

\* lines 133-138: every child of the action is available
AllAvailable(children) == children \subseteq traverser.available

\* the action was visited and is not queued again before an input is there
ReadyWithAnyInput(tr, a) ==
    /\ a \in tr.discovered
    /\ a \notin tr.queued
    /\ Graph[a].inputs \cap tr.available # {}

\* an action is queued once its inputs are available, visited or not
ReadyUnvisited(tr, a) ==
    /\ a \notin tr.queued
    /\ Graph[a].inputs \subseteq tr.available

\* an action is queued for processing once it was visited, all its inputs
\* are available and it was not queued before
Ready(tr, a) ==
    /\ a \in tr.discovered
    /\ a \notin tr.queued
    /\ Graph[a].inputs \subseteq tr.available

\* a node is visited again although it was discovered before
GetAndMarkDiscoveredNever(tr, n) == FALSE

\* TraversalState()->GetAndMarkDiscovered(): was the node discovered before
GetAndMarkDiscovered(tr, n) == n \in tr.discovered

\* the tasks of the actions that became ready
QueueReady(tr) ==
    LET ready == {a \in ActionNodes : Ready(tr, a)}
    IN  [tr EXCEPT !.tasks = @ \cup {<<"process", a>> : a \in ready},
                   !.queued = @ \cup ready]

IdleTraversal ==
    [discovered |-> {}, available |-> {}, queued |-> {}, tasks |-> {},
     calls |-> 0, ids |-> {}, failed |-> FALSE, processed |-> <<>>]

IdleBuildInfo ==
    [correctly_built |-> {}, incorrectly_built |-> {}, artifacts_uploaded |-> {},
     uploaded_more_than_once |-> {}]

\* the sets of artifacts a call of Traverse names: one artifact, two action
\* outputs, an action output and a local input of its action, or all of
\* them, which is what Traverse() without arguments asks for
Requests ==
    {{id} : id \in ArtifactNodes}
    \cup {{id, other} : id \in ArtifactsToBeBuilt, other \in ArtifactsToBeBuilt}
    \cup UNION {{{id, input} : input \in LocalArtifacts \cap Graph[Builder(id)].inputs} :
                   id \in ArtifactsToBeBuilt}
    \cup {ArtifactNodes}

InitTraverser ==
    /\ g \in GraphNames
    /\ traverser = IdleTraversal
    /\ build_info = IdleBuildInfo

\* Traverse(ids): a visit is queued for every artifact named; the call
\* before it has returned
Traverse(ids) ==
    /\ traverser.tasks = {}
    /\ ~traverser.failed
    /\ traverser.calls < MaxTraverse
    /\ traverser' = [traverser EXCEPT !.calls = @ + 1,
                                      !.ids = @ \cup ids,
                                      !.tasks = {<<"visit", id>> : id \in ids}]
    /\ UNCHANGED <<g, build_info, restVars, localVars>>

\* Visit(artifact): once per artifact; its builder is visited, a local
\* artifact is queued for processing
VisitArtifact(id) ==
    /\ <<"visit", id>> \in traverser.tasks
    /\ id \in ArtifactNodes
    /\ LET taken == [traverser EXCEPT !.tasks = @ \ {<<"visit", id>>}]
       IN  traverser' =
             IF GetAndMarkDiscovered(traverser, id) THEN taken
             ELSE [taken EXCEPT !.discovered = @ \cup {id},
                                !.tasks = @ \cup {IF id \in LocalArtifacts
                                                    THEN <<"process", id>>
                                                    ELSE <<"visit", Builder(id)>>}]
    /\ UNCHANGED <<g, build_info, restVars, localVars>>

\* Visit(action): once per action; it is queued at once when it waits for
\* nothing, and its inputs are visited otherwise
VisitAction(a) ==
    /\ <<"visit", a>> \in traverser.tasks
    /\ a \in ActionNodes
    /\ LET taken == [traverser EXCEPT !.tasks = @ \ {<<"visit", a>>}]
           marked == [taken EXCEPT !.discovered = @ \cup {a}]
       IN  traverser' =
             IF GetAndMarkDiscovered(traverser, a) THEN taken
             ELSE IF Ready(marked, a) THEN QueueReady(marked)
             ELSE [marked EXCEPT !.tasks = @ \cup {<<"visit", id>> :
                                       id \in Graph[a].inputs \ marked.available}]
    /\ UNCHANGED <<g, build_info, restVars, localVars>>

\* lines 118-127: Process(artifact) records the upload; the artifact is
\* then available and the actions waiting for it alone are queued
ProcessArtifact(id) ==
    /\ <<"process", id>> \in traverser.tasks
    /\ id \in ArtifactNodes
    /\ build_info' =
          [build_info EXCEPT
             !.artifacts_uploaded = @ \cup {id},
             !.uploaded_more_than_once =
                 IF id \in build_info.artifacts_uploaded THEN @ \cup {id} ELSE @]
    /\ traverser' = QueueReady([traverser EXCEPT !.tasks = @ \ {<<"process", id>>},
                                                 !.available = @ \cup {id}])
    /\ UNCHANGED <<g, restVars, localVars>>

\* lines 91-116: Process(action).  With every input available each output
\* is inserted into correctly_built_, and one that was there already goes
\* into incorrectly_built_ and fails the action; without, every output goes
\* into incorrectly_built_ and the action fails.  A failure ends the
\* traversal; after a success the outputs are available.
ProcessAction(a) ==
    /\ <<"process", a>> \in traverser.tasks
    /\ a \in ActionNodes
    /\ LET all_deps_available == AllAvailable(Graph[a].inputs)
           repeated == Graph[a].outputs \cap build_info.correctly_built
           ok == all_deps_available /\ repeated = {}
           taken == [traverser EXCEPT
                       !.tasks = @ \ {<<"process", a>>},
                       !.processed = Append(@, [action |-> a, call |-> traverser.calls,
                                                available |-> traverser.available])]
       IN  /\ build_info' =
                 IF all_deps_available
                   THEN [build_info EXCEPT
                           !.correctly_built =
                               IF repeated = {} THEN @ \cup Graph[a].outputs ELSE @,
                           !.incorrectly_built =
                               IF repeated = {} THEN @
                               ELSE @ \cup {CHOOSE id \in repeated : TRUE}]
                   ELSE [build_info EXCEPT
                           !.incorrectly_built = @ \cup Graph[a].outputs]
           /\ traverser' =
                 IF ok THEN QueueReady([taken EXCEPT !.available = @ \cup Graph[a].outputs])
                 ELSE [taken EXCEPT !.failed = TRUE, !.tasks = {}]
    /\ UNCHANGED <<g, restVars, localVars>>

NextTraverser ==
    \/ \E ids \in Requests : Traverse(ids)
    \/ \E id \in ArtifactNodes : VisitArtifact(id)
    \/ \E a \in ActionNodes : VisitAction(a)
    \/ \E id \in ArtifactNodes : ProcessArtifact(id)
    \/ \E a \in ActionNodes : ProcessAction(a)

(***************************************************************************)
(* Local execution: the action cache over the CAS, and a local action.    *)
(***************************************************************************)
\* ArtifactDigest::Create(content)
ArtifactDigest(content) == <<"sha256">> \o content

\* ActionResult::SerializeAsString and ParseFromString
SerializeResult(res) ==
    <<"ActionResult", ToString(res.exit_code), res.stdout>> \o res.output_files
ParseResult(bytes) ==
    [exit_code |-> IF bytes[2] = "0" THEN 0 ELSE 1,
     stdout |-> bytes[3],
     output_files |-> SubSeq(bytes, 4, Len(bytes))]

EmptyStorage == [ac |-> {}, cas |-> {}]

\* the entry written first for an action is kept
StoreResultOnce(st, action_id, res, ok) ==
    IF ~ok THEN st
    ELSE [ac |-> IF \E e \in st.ac : e[1] = action_id THEN st.ac
                 ELSE st.ac \cup {<<action_id, ArtifactDigest(SerializeResult(res))>>},
          cas |-> st.cas \cup {SerializeResult(res)}]

\* LocalAC::StoreResult: the serialised result goes into the CAS and its
\* digest becomes the entry of the action, in place of the entry before;
\* a store that fails leaves the storage as it was
StoreResult(st, action_id, res, ok) ==
    IF ~ok THEN st
    ELSE [ac |-> {e \in st.ac : e[1] # action_id}
                   \cup {<<action_id, ArtifactDigest(SerializeResult(res))>>},
          cas |-> st.cas \cup {SerializeResult(res)}]

\* LocalAC::CachedResult: <<>> without an entry or without its blob, else
\* <<the result parsed from the blob>>
CachedResult(st, action_id) ==
    LET blobs == {b \in st.cas : <<action_id, ArtifactDigest(b)>> \in st.ac}
    IN  IF blobs = {} THEN <<>> ELSE <<ParseResult(CHOOSE b \in blobs : TRUE)>>

\* lines 111-121: RunDummyExecution's result, one output file named seed
DummyResult(seed) == [exit_code |-> 0, stdout |-> "", output_files |-> <<seed>>]

ActionIds == {<<"action1">>, <<"action2">>}
Seeds == {"result1", "result2"}

IdleLocal ==
    /\ storage_ = EmptyStorage
    /\ action = [command |-> "", cache_flag |-> "CacheOutput"]
    /\ responses = <<>>

InitLocalAC == IdleLocal

Stores == SelectSeq(responses, LAMBDA r : r.fn = "StoreResult")

\* ac.StoreResult(action_id, result) by RunDummyExecution
CallStoreResult(action_id, seed, ok) ==
    /\ Len(Stores) < MaxStores
    /\ storage_' = StoreResult(storage_, action_id, DummyResult(seed), ok)
    /\ responses' = Append(responses, [fn |-> "StoreResult", id |-> action_id,
                                        result |-> <<DummyResult(seed)>>, out |-> ok])
    /\ UNCHANGED <<action, restVars, traverserVars>>

\* ac.CachedResult(action_id): one lookup before the first store and one
\* after each store
CallCachedResult(action_id) ==
    /\ responses # <<>> => responses[Len(responses)].fn = "StoreResult"
    /\ responses' = Append(responses, [fn |-> "CachedResult", id |-> action_id,
                                        result |-> CachedResult(storage_, action_id),
                                        out |-> CachedResult(storage_, action_id) # <<>>])
    /\ UNCHANGED <<storage_, action, restVars, traverserVars>>

\* the commands of the tests: echo (lines 11-68), write an output (70-141),
\* copy an input to an output (143-222), write an output and exit 1 (224-299)
Commands == {"echo", "write", "copy", "exit 1"}

\* LocalAction::Run: what running the command gives
RunCommand(command) ==
    [exit_code |-> IF command = "exit 1" THEN 1 ELSE 0,
     stdout |-> IF command = "echo" THEN "test" ELSE "",
     output_files |-> IF command = "echo" THEN <<>> ELSE <<"output_file">>]

\* CreateActionDigest(root_digest, do_not_cache)
CreateActionDigest(command, do_not_cache) ==
    <<"action", command>> \o (IF do_not_cache THEN <<"do_not_cache">> ELSE <<>>)

\* a cached result is returned whatever its exit code
CachedResultUsedAlways(cached) == cached # <<>>

\* LocalAction::Execute: a cached result is returned when its exit code is 0
CachedResultUsed(cached) == cached # <<>> /\ cached[1].exit_code = 0

\* lines 39-54: the action is created on the storage of the API
InitLocalApi ==
    /\ storage_ = EmptyStorage
    /\ action \in {[command |-> c, cache_flag |-> "CacheOutput"] : c \in Commands}
    /\ responses = <<>>

\* action->SetCacheFlag(flag)
SetCacheFlag(flag) ==
    /\ flag # action.cache_flag
    /\ action' = [action EXCEPT !.cache_flag = flag]
    /\ UNCHANGED <<storage_, responses, restVars, traverserVars>>

\* action->Execute(): with CacheOutput the action cache is asked first;
\* otherwise, or without a usable entry, the command is run, and with
\* CacheOutput its result is stored
Execute ==
    /\ Len(responses) < MaxExecute
    /\ LET do_cache == action.cache_flag = "CacheOutput"
           action_id == CreateActionDigest(action.command, ~do_cache)
           cached == IF do_cache THEN CachedResult(storage_, action_id) ELSE <<>>
       IN  IF CachedResultUsed(cached)
             THEN /\ responses' = Append(responses,
                                         [fn |-> "Execute", flag |-> action.cache_flag,
                                          result |-> cached[1], is_cached |-> TRUE,
                                          ran |-> FALSE])
                  /\ UNCHANGED storage_
             ELSE /\ responses' = Append(responses,
                                         [fn |-> "Execute", flag |-> action.cache_flag,
                                          result |-> RunCommand(action.command),
                                          is_cached |-> FALSE, ran |-> TRUE])
                  /\ storage_' = IF do_cache
                                   THEN StoreResult(storage_, action_id,
                                                    RunCommand(action.command), TRUE)
                                   ELSE storage_
    /\ UNCHANGED <<action, restVars, traverserVars>>

NextLocalApi ==
    \/ \E flag \in {"CacheOutput", "DoNotCacheOutput"} : SetCacheFlag(flag)
    \/ Execute

NextLocalAC ==
    \/ \E action_id \in ActionIds, seed \in Seeds, ok \in BOOLEAN :
          CallStoreResult(action_id, seed, ok)
    \/ \E action_id \in ActionIds : CallCachedResult(action_id)

(***************************************************************************)
(* One key in the reader of the target map: the calls of its setter and   *)
(* of its logger, and the keys it asks of the other maps, along every     *)
(* path through the reader and its continuations.                         *)
(***************************************************************************)
\* the keys: an anonymous target with a value node, with an abstract node
\* whose node_type the rule map has or has not, an explicit tree reference,
\* an explicit file reference, a named target
ReaderKeys == {"value node", "abstract node", "unresolved node", "tree", "file", "named"}

UserRules == {"r", "s"}

\* rule_mapping.Find(abs.node_type): <<>> or <<the rule name>>
Find(key) == IF key = "abstract node" THEN <<"r">> ELSE <<>>

Event(ev, arg) == [ev |-> ev, arg |-> arg]
Setter == Event("setter", "")
Fatal(msg) == Event("fatal", msg)

\* the reader calls ev and is then at pc
Then(ev, pc) == [reader EXCEPT !.events = Append(@, ev), !.pc = pc]

\* result_map->Add(key.target, conf, analysis_result), then the setter on
\* what it returned
AddThenSet ==
    [reader EXCEPT !.events = @ \o <<Event("result_map->Add", ""), Setter>>, !.pc = "done"]

\* the value of an empty optional is read: the process dies there, or goes
\* on with whatever rule name the storage of the optional holds
EmptyOptionalRead == {"crash"} \cup UserRules

\* lines 1198-1275, up to the call of rule_map->ConsumeAfterKeysReady
withTargetNode(key, read) ==
    IF key = "value node" THEN Then(Setter, "done")
    ELSE IF Find(key) = <<>>
      THEN LET logged == Then(Fatal("Cannot resolve type of node"), "done")
           IN  IF read = "crash"
                 THEN [logged EXCEPT !.events = Append(@, Event("crash", "rule_name->get()"))]
                 ELSE [logged EXCEPT !.events = Append(@, Event("rule_map", read)),
                                     !.pc = "rule_map"]
    ELSE Then(Event("rule_map", Find(key)[1]), "rule_map")

InitReader == reader \in {[key |-> k, pc |-> "reader", events |-> <<>>] : k \in ReaderKeys}

\* an explicit file reference is looked up in the targets file of its
\* module like a named target
TargetReaderFileAsNamed(read) ==
    /\ reader.pc = "reader"
    /\ reader' =
          CASE reader.key \in {"value node", "abstract node", "unresolved node"} ->
                 withTargetNode(reader.key, read)
            [] reader.key = "tree" -> Then(Event("directory_entries", ""), "directory_entries")
            [] OTHER -> Then(Event("targets_file", ""), "targets_file")
    /\ UNCHANGED outerVars

\* lines 1378-1455: the reader of CreateTargetMap
TargetReader(read) ==
    /\ reader.pc = "reader"
    /\ reader' =
          CASE reader.key \in {"value node", "abstract node", "unresolved node"} ->
                 withTargetNode(reader.key, read)
            [] reader.key = "tree" -> Then(Event("directory_entries", ""), "directory_entries")
            [] reader.key = "file" -> Then(Event("source_target", ""), "source_target")
            [] OTHER -> Then(Event("targets_file", ""), "targets_file")
    /\ UNCHANGED outerVars

\* a key asked of another map, or of this one by the sub-caller, fails: the
\* logger handed over is called with fatal and the continuation is not
Failed(pc) ==
    /\ reader.pc = pc
    /\ pc \in {"directory_entries", "source_target", "targets_file", "rule_map",
                "tree entries", "first wave", "anonymous wave"}
    /\ reader' = Then(Fatal("While " \o pc), "done")
    /\ UNCHANGED outerVars

\* what the source map can hold for a file: analysed targets of one local
\* artifact
SourceValues == {"local-artifact 1", "local-artifact 2"}

\* lines 1411-1416 and 1100-1103: the continuation is called with the value
\* of the source map and hands AnalysedTargetPtr{*values[0]} to the setter
SourceTargetReady(value) ==
    /\ reader.pc = "source_target"
    /\ reader' = [reader EXCEPT !.events = @ \o <<Event("values[0]", value),
                                                  Event("setter", value)>>,
                                !.pc = "done"]
    /\ UNCHANGED outerVars

\* lines 1290-1320: the entries of the directory are asked of the sub-caller
DirectoryEntriesReady ==
    /\ reader.pc = "directory_entries"
    /\ reader' = Then(Event("subcaller", "entries"), "tree entries")
    /\ UNCHANGED outerVars

\* lines 1320-1356: the tree is added to the result map and set
TreeEntriesReady ==
    /\ reader.pc = "tree entries"
    /\ reader' = AddThenSet
    /\ UNCHANGED outerVars

\* what targets_file.find(name) and desc.find("type") can come to: the name
\* is not defined, its description has no type, the type is a built-in
\* rule, is no rule name, or names a user rule (and then the description
\* may not be readable)
Found == {"not defined", "no type", "built-in", "bad rule name", "bad description"}
            \cup UserRules

\* lines 1087-1196, withTargetsFile up to its lookups
TargetsFileReady(found) ==
    /\ reader.pc = "targets_file"
    /\ reader' =
          LET looked == [reader EXCEPT !.events = Append(@, Event("find", found))]
              then(ev, pc) == [looked EXCEPT !.events = Append(@, ev), !.pc = pc]
          IN  CASE found = "not defined" -> then(Event("source_target", ""), "source_target")
                [] found = "no type" ->
                     then(Fatal("No type specified in the definition of target"), "done")
                [] found = "built-in" -> then(Event("HandleBuiltin", ""), "built-in")
                [] found = "bad rule name" -> then(Fatal("Parsing rule name failed"), "done")
                [] found = "bad description" -> then(Fatal("FieldReader::CreatePtr"), "done")
                [] OTHER -> then(Event("rule_map", found), "rule_map")
    /\ UNCHANGED outerVars

\* HandleBuiltin: the built-in rule sets the target or logs a fatal error
BuiltinDone(ok) ==
    /\ reader.pc = "built-in"
    /\ reader' = Then(IF ok THEN Setter ELSE Fatal("built-in rule"), "done")
    /\ UNCHANGED outerVars

\* what can go wrong in withRuleDefinition before its sub-caller call
RuleFailures ==
    {"Failed to read data from target", "While evaluating config field",
     "Config field should evaluate to a list of strings",
     "While evaluating config transition", "While evaluating target parameter",
     "Target parameter should evaluate to a list", "Parsing entry in target field failed"}

\* lines 897-911: deps_names->IsList() on the null pointer a failed
\* evaluation returns.  The process dies there, or the read of the missing
\* value says "a list" or "not a list".
NullValueRead == {"crash", "list", "not list"}

\* lines 895-911: a target field whose evaluation failed
target_parameter(failure, read) ==
    LET logged == Then(Fatal(failure), "done")
    IN  CASE read = "crash" ->
               [logged EXCEPT !.events = Append(@, Event("crash", "deps_names->IsList()"))]
          [] read = "not list" ->
               [logged EXCEPT !.events =
                   Append(@, Fatal("Target parameter should evaluate to a list"))]
          [] OTHER ->
               [logged EXCEPT !.events = Append(@, Event("subcaller", "dependency_keys")),
                              !.pc = "first wave"]

\* lines 1236-1266 and 1159-1188, then 749-993: the continuation of the
\* rule lookup reads the data of the target and runs withRuleDefinition up
\* to its sub-caller call
RuleReady(failure, read) ==
    /\ reader.pc = "rule_map"
    /\ reader' =
          IF failure = "none" THEN Then(Event("subcaller", "dependency_keys"), "first wave")
          ELSE IF failure = "While evaluating target parameter"
            THEN target_parameter(failure, read)
          ELSE Then(Fatal(failure), "done")
    /\ UNCHANGED outerVars

AnonymousFailures ==
    {"Provider does not exist", "Provider must be list of target nodes",
     "Entry in provider must be target node"}

\* lines 994-1083: the continuation of the first wave
FirstWaveReady(failure) ==
    /\ reader.pc = "first wave"
    /\ reader' =
          IF failure = "none" THEN Then(Event("subcaller", "anonymous_keys"), "anonymous wave")
          ELSE Then(Fatal(failure), "done")
    /\ UNCHANGED outerVars

DependencyFailures ==
    {"getTainted", "Not tainted with all strings the dependencies are tainted with",
     "While evaluating string field", "String field should be a list of strings",
     "While evaluating defining expression",
     "Defining expression should evaluate to a RESULT"}

\* lines 1068-1081 and 193-729: withDependencies
AnonymousWaveReady(failure) ==
    /\ reader.pc = "anonymous wave"
    /\ reader' = IF failure = "none" THEN AddThenSet ELSE Then(Fatal(failure), "done")
    /\ UNCHANGED outerVars

NextReader ==
    \/ \E read \in EmptyOptionalRead : TargetReader(read)
    \/ \E pc \in {"directory_entries", "source_target", "targets_file", "rule_map",
                   "tree entries", "first wave", "anonymous wave"} : Failed(pc)
    \/ \E value \in SourceValues : SourceTargetReady(value)
    \/ DirectoryEntriesReady
    \/ TreeEntriesReady
    \/ \E found \in Found : TargetsFileReady(found)
    \/ \E ok \in BOOLEAN : BuiltinDone(ok)
    \/ \E failure \in RuleFailures \cup {"none"}, read \in NullValueRead :
          RuleReady(failure, read)
    \/ \E failure \in AnonymousFailures \cup {"none"} : FirstWaveReady(failure)
    \/ \E failure \in DependencyFailures \cup {"none"} : AnonymousWaveReady(failure)

(***************************************************************************)
(* withRuleDefinition from "Request dependencies" on: the keys it asks of *)
(* the sub-caller in two waves and what it hands to withDependencies.     *)
(* A rule here has target fields, implicit targets and anonymous          *)
(* definitions, each field with its list of configuration transitions.    *)
(***************************************************************************)
DepNames == {"a", "b", "c"}
Providers == {"p"}
NodeNames == {"n1", "n2"}

\* an entity name: a named target or AnonymousTarget{rule_map, node}
NamedTarget(name) == [kind |-> "named", name |-> name, rule_map |-> ""]
AnonymousTarget(rule_map, nd) == [kind |-> "anonymous", name |-> nd, rule_map |-> rule_map]
ConfiguredTarget(target, config) == [target |-> target, config |-> config]

\* what Provides()->Map().Find(def.provider) of a dependency can be
Missing == [is |-> "missing", list |-> <<>>]
NotAList == [is |-> "string", list |-> <<>>]
Provided(list) == [is |-> "list", list |-> list]
ProviderValues ==
    {Missing, NotAList, Provided(<<"n1", "not a node">>),
     Provided(<<>>), Provided(<<"n1">>), Provided(<<"n1", "n2">>)}

\* what the dependencies of a run provide, by name
Provides ==
    {[n \in DepNames |-> [p \in Providers |-> IF n = "a" THEN pa ELSE IF n = "b" THEN pb ELSE pc]] :
        pa \in ProviderValues, pb \in ProviderValues, pc \in {Missing, Provided(<<"n2">>)}}

TransitionLists == {Identity, <<Dbg>>, <<EmptyConf, Dbg>>}

\* the rules: the evaluated target fields in the order of TargetFields(),
\* the implicit targets and the anonymous definitions in the order of
\* their maps, and config_transitions of every field
UserRule(target_fields, implicit, anonymous, transitions) ==
    [target_fields |-> target_fields, implicit |-> implicit, anonymous |-> anonymous,
     config_transitions |-> transitions]
Field(name, deps) == [name |-> name, deps |-> deps]
Definition(name, target) == [name |-> name, target |-> target, provider |-> "p", rule_map |-> "m"]

AnonymousLists ==
    {<<>>, <<Definition("x", "f")>>, <<Definition("x", "i")>>, <<Definition("x", "h")>>,
     <<Definition("x", "f"), Definition("y", "h")>>,
     <<Definition("x", "f"), Definition("y", "f")>>}

UserRuleMenu ==
    {UserRule(<<Field("f", df), Field("h", dh)>>, im, an,
              [fld \in {"f", "h", "i", "x", "y"} |->
                  IF fld = "f" THEN tf ELSE IF fld = "x" THEN tx ELSE Identity]) :
        df \in {<<>>, <<"a">>, <<"a", "b">>, <<"b", "a">>}, dh \in {<<>>, <<"b">>},
        im \in {<<>>, <<Field("i", <<"c">>)>>}, an \in AnonymousLists,
        tf \in TransitionLists, tx \in TransitionLists}

\* positions are recorded after the key is appended
add_field_after(st, key, fld, transitions) ==
    LET n == Len(st.dependency_keys)
        d == Len(fld.deps)
        m == Len(transitions) * d
    IN  [dependency_keys |-> st.dependency_keys \o
            [i \in 1..m |-> ConfiguredTarget(NamedTarget(fld.deps[((i - 1) % d) + 1]),
                                Update(key.config, transitions[((i - 1) \div d) + 1]))],
         transition_keys |-> st.transition_keys \o
            [i \in 1..m |-> ConfiguredTarget(NamedTarget(fld.deps[((i - 1) % d) + 1]),
                                transitions[((i - 1) \div d) + 1])],
         anon_positions |->
            IF fld.name \in DOMAIN st.anon_positions
              THEN [st.anon_positions EXCEPT ![fld.name] = @ \o [i \in 1..m |-> n + i]]
              ELSE st.anon_positions]

\* lines 938-954 and 960-975: for each transition of the field and each of
\* its dependencies, the position (if the field is the target of an
\* anonymous definition), the dependency key and the transition key
add_field(st, key, fld, transitions) ==
    LET n == Len(st.dependency_keys)
        d == Len(fld.deps)
        m == Len(transitions) * d
    IN  [dependency_keys |-> st.dependency_keys \o
            [i \in 1..m |-> ConfiguredTarget(NamedTarget(fld.deps[((i - 1) % d) + 1]),
                                Update(key.config, transitions[((i - 1) \div d) + 1]))],
         transition_keys |-> st.transition_keys \o
            [i \in 1..m |-> ConfiguredTarget(NamedTarget(fld.deps[((i - 1) % d) + 1]),
                                transitions[((i - 1) \div d) + 1])],
         anon_positions |->
            IF fld.name \in DOMAIN st.anon_positions
              THEN [st.anon_positions EXCEPT ![fld.name] = @ \o [i \in 1..m |-> n + i - 1]]
              ELSE st.anon_positions]

RECURSIVE add_fields(_, _, _, _)
add_fields(st, key, rule, flds) ==
    IF flds = <<>> THEN st
    ELSE add_fields(add_field(st, key, Head(flds), rule.config_transitions[Head(flds).name]),
                    key, rule, Tail(flds))

\* lines 887-979: anon_positions, dependency_keys and transition_keys
request_dependencies(rule, key) ==
    add_fields([dependency_keys |-> <<>>, transition_keys |-> <<>>,
                anon_positions |->
                    [f \in {rule.anonymous[i].target : i \in 1..Len(rule.anonymous)} |-> <<>>]],
               key, rule, rule.target_fields \o rule.implicit)

\* lines 1003-1040: the nodes one provider value adds to anon_names, or the error
RECURSIVE provider_nodes(_, _, _)
provider_nodes(def, values, positions) ==
    IF positions = <<>> THEN [error |-> "", anon_names |-> <<>>]
    ELSE LET provider_value == values[Head(positions) + 1].provides[def.provider]
             rest == provider_nodes(def, values, Tail(positions))
         IN  IF provider_value.is = "missing"
               THEN [error |-> "Provider does not exist", anon_names |-> <<>>]
             ELSE IF provider_value.is # "list"
               THEN [error |-> "Provider must be list of target nodes", anon_names |-> <<>>]
             ELSE IF \E i \in 1..Len(provider_value.list) :
                         provider_value.list[i] \notin NodeNames
               THEN [error |-> "Entry in provider must be target node", anon_names |-> <<>>]
             ELSE IF rest.error # "" THEN rest
             ELSE [error |-> "",
                   anon_names |-> [i \in 1..Len(provider_value.list) |->
                                      AnonymousTarget(def.rule_map, provider_value.list[i])]
                                  \o rest.anon_names]

\* one key per node, whatever the transitions of the anonymous field
anonymous_wave_untransitioned(st, key, def, transitions, names) ==
    [st EXCEPT
       !.anonymous_keys = @ \o
          [i \in 1..Len(names) |-> ConfiguredTarget(names[i], key.config)],
       !.transition_keys = @ \o
          [i \in 1..Len(names) |-> ConfiguredTarget(names[i], EmptyConf)]]

\* lines 1042-1054: the anonymous keys and transition keys of one definition
anonymous_wave(st, key, def, transitions, names) ==
    LET d == Len(names)
        m == Len(transitions) * d
    IN  [st EXCEPT
           !.anonymous_keys = @ \o
              [i \in 1..m |-> ConfiguredTarget(names[((i - 1) % d) + 1],
                                  Update(key.config, transitions[((i - 1) \div d) + 1]))],
           !.transition_keys = @ \o
              [i \in 1..m |-> ConfiguredTarget(names[((i - 1) % d) + 1],
                                  transitions[((i - 1) \div d) + 1])]]

\* lines 998-1057: the loop over the anonymous definitions
RECURSIVE anonymous_definitions(_, _, _, _, _)
anonymous_definitions(st, key, rule, values, defs) ==
    IF defs = <<>> THEN st
    ELSE LET def == Head(defs)
             found == provider_nodes(def, values, st.anon_positions[def.target])
         IN  IF found.error # "" THEN [st EXCEPT !.error = found.error]
             ELSE anonymous_definitions(
                    anonymous_wave(st, key, def, rule.config_transitions[def.name],
                                   found.anon_names),
                    key, rule, values, Tail(defs))

IdleRule == rule_run = [pc |-> "idle"]

InitRule ==
    rule_run \in {[pc |-> "rule", rule |-> r, key |-> ConfiguredTarget(NamedTarget("t"), c),
                   issued |-> <<>>, logged |-> <<>>]
                    : r \in UserRuleMenu, c \in {EmptyConf, Opt}}

\* lines 885-993: the first wave is asked of the sub-caller
RequestDependencies ==
    /\ rule_run.pc = "rule"
    /\ LET st == request_dependencies(rule_run.rule, rule_run.key)
       IN  rule_run' = [pc |-> "first wave", rule |-> rule_run.rule, key |-> rule_run.key,
                        issued |-> <<st.dependency_keys>>, logged |-> <<>>,
                        transition_keys |-> st.transition_keys,
                        anon_positions |-> st.anon_positions]
    /\ UNCHANGED besideRun

\* lines 994-1083: the sub-caller hands over the values of the first wave,
\* in the order of the keys; the anonymous targets are resolved and asked for
FirstWaveValues(provides) ==
    /\ rule_run.pc = "first wave"
    /\ LET keys == rule_run.issued[1]
           values == [i \in 1..Len(keys) |->
                        [of |-> keys[i], provides |-> provides[keys[i].target.name]]]
           st == anonymous_definitions(
                    [anonymous_keys |-> <<>>, transition_keys |-> rule_run.transition_keys,
                     anon_positions |-> rule_run.anon_positions, error |-> ""],
                    rule_run.key, rule_run.rule, values, rule_run.rule.anonymous)
       IN  rule_run' =
             IF st.error # ""
               THEN [pc |-> "done", rule |-> rule_run.rule, key |-> rule_run.key,
                     issued |-> rule_run.issued, logged |-> <<st.error>>,
                     values |-> values, anon_positions |-> rule_run.anon_positions]
               ELSE [pc |-> "anonymous wave", rule |-> rule_run.rule, key |-> rule_run.key,
                     issued |-> Append(rule_run.issued, st.anonymous_keys),
                     logged |-> <<>>,
                     values |-> values, anon_positions |-> rule_run.anon_positions,
                     transition_keys |-> st.transition_keys]
    /\ UNCHANGED besideRun

\* lines 1068-1081: the values of the anonymous wave are joined to those of
\* the first and withDependencies is called
AnonymousWaveValues ==
    /\ rule_run.pc = "anonymous wave"
    /\ LET keys == rule_run.issued[2]
           values == [i \in 1..Len(keys) |->
                        [of |-> keys[i], provides |-> [p \in Providers |-> Missing]]]
       IN  rule_run' = [pc |-> "withDependencies", rule |-> rule_run.rule,
                        key |-> rule_run.key, issued |-> rule_run.issued,
                        logged |-> <<>>,
                        values |-> rule_run.values,
                        anon_positions |-> rule_run.anon_positions,
                        transition_keys |-> rule_run.transition_keys,
                        dependency_values |-> rule_run.values \o values]
    /\ UNCHANGED besideRun

NextRule ==
    \/ RequestDependencies
    \/ \E provides \in Provides : FirstWaveValues(provides)
    \/ AnonymousWaveValues

(***************************************************************************)
(* LocalApi in native mode: UploadTree and UploadBlobTree into the CAS of *)
(* this API, RetrieveToCas from it into the CAS of a target API.  An      *)
(* object is a file blob or a tree blob; a tree blob names its direct     *)
(* entries.  A CAS is the set of objects available in it.                 *)
(***************************************************************************)
FileObjects == {"f1", "f2"}
TreeObjects == {"s", "t", "q"}
Objects == FileObjects \cup TreeObjects

\* the direct entries of a tree, in the order of the tree
DirectEntries(o) ==
    CASE o = "s" -> <<"f2">>
      [] o = "t" -> <<"s", "f2", "f1">>
      [] o = "q" -> <<"t", "f2">>
      [] OTHER -> <<>>

\* NativeSupport::IsTree(digest.hash())
IsTreeObject(o) == o \in TreeObjects

\* a store can fail: the how-many-th store of a call does; none when the
\* call makes fewer
FailingStores == 1..(2 * Cardinality(Objects))

\* the state a call threads through: the CAS written to, the stores made,
\* the stores left before one fails
Transfer(cas, left) == [ok |-> TRUE, cas |-> cas, stored |-> <<>>, left |-> left]

\* the same with the container a loop has filled so far
Collected(st, container) ==
    [ok |-> st.ok, cas |-> st.cas, stored |-> st.stored, left |-> st.left,
     container |-> container]
Failing(st) == Collected([st EXCEPT !.ok = FALSE], <<>>)

Reverse(seq) == [i \in 1..Len(seq) |-> seq[Len(seq) + 1 - i]]

\* lines 209-222: Upload stores the blobs of the container one by one and
\* stops at the first store that fails
RECURSIVE Upload(_, _)
Upload(st, blobs) ==
    IF blobs = <<>> THEN st
    ELSE IF st.left = 1 THEN [st EXCEPT !.ok = FALSE, !.left = 0]
    ELSE Upload([st EXCEPT !.cas = @ \cup {Head(blobs)},
                           !.stored = Append(@, Head(blobs)),
                           !.left = @ - 1],
                Tail(blobs))

\* lines 233-234 and 343-355: the digests that are not available, in order
Unavailable(cas, digests) == SelectSeq(digests, LAMBDA o : o \notin cas)

\* the blobs of the missing nodes are uploaded, their content is not
UploadBlobTreeFlat(st, tree_node, reversed) ==
    LET container == Unavailable(st.cas, DirectEntries(tree_node))
    IN  Upload(st, IF reversed THEN Reverse(container) ELSE container)

RECURSIVE UploadBlobTree(_, _, _)
RECURSIVE UploadMissing(_, _, _, _)
\* lines 238-257: the loop over the missing nodes; the content of a missing
\* tree is uploaded before its blob is put into the container
UploadMissing(st, missing, container, reversed) ==
    IF missing = <<>> THEN Collected(st, container)
    ELSE LET tree_node == Head(missing)
             below == IF IsTreeObject(tree_node) THEN UploadBlobTree(st, tree_node, reversed) ELSE st
         IN  IF ~below.ok THEN Failing(below)
             ELSE UploadMissing(below, Tail(missing), Append(container, tree_node), reversed)

\* lines 225-266: UploadBlobTree; the container hands out its blobs in the
\* order they were put in or in the reverse order
UploadBlobTree(st, tree_node, reversed) ==
    LET done == UploadMissing(Collected(st, <<>>),
                              Unavailable(st.cas, DirectEntries(tree_node)), <<>>, reversed)
        next == [ok |-> done.ok, cas |-> done.cas, stored |-> done.stored,
                 left |-> done.left]
    IN  IF ~done.ok THEN next
        ELSE Upload(next, IF reversed THEN Reverse(done.container) ELSE done.container)

\* lines 303-325: UploadTree in native mode, for the blob tree root
UploadTree(st, root, reversed) ==
    IF root \in st.cas THEN st
    ELSE LET content == UploadBlobTree(st, root, reversed)
         IN  IF ~content.ok THEN content ELSE Upload(content, <<root>>)

\* the result of the transfer of the entries is not looked at
RECURSIVE RetrieveToCasRegardless(_, _, _, _)
RECURSIVE CollectRegardless(_, _, _, _, _)
CollectRegardless(st, local, missing, container, reversed) ==
    IF missing = <<>> THEN Collected(st, container)
    ELSE LET info == Head(missing)
             below == IF IsTreeObject(info) /\ info \in local
                        THEN RetrieveToCasRegardless(st, local, DirectEntries(info), reversed)
                        ELSE st
         IN  IF info \notin local THEN Failing(below)
             ELSE CollectRegardless([ok |-> TRUE, cas |-> below.cas, stored |-> below.stored,
                                     left |-> below.left], local, Tail(missing),
                                    Append(container, info), reversed)

RetrieveToCasRegardless(st, local, artifacts_info, reversed) ==
    LET done == CollectRegardless(Collected(st, <<>>),
                                  local, Unavailable(st.cas, artifacts_info), <<>>, reversed)
        next == [ok |-> done.ok, cas |-> done.cas, stored |-> done.stored,
                 left |-> done.left]
    IN  IF ~done.ok THEN next
        ELSE Upload(next, IF reversed THEN Reverse(done.container) ELSE done.container)

RECURSIVE RetrieveToCas(_, _, _, _)
RECURSIVE Collect(_, _, _, _, _)
\* lines 156-198: the loop over the missing artifacts.  The entries of a
\* tree are read from the local storage and transferred first; then the
\* object itself is read from the local storage into the container.
Collect(st, local, missing, container, reversed) ==
    IF missing = <<>> THEN Collected(st, container)
    ELSE LET info == Head(missing)
             below == IF IsTreeObject(info) /\ info \in local
                        THEN RetrieveToCas(st, local, DirectEntries(info), reversed)
                        ELSE st
         IN  IF info \notin local \/ ~below.ok
               THEN Failing(below)
             ELSE Collect(below, local, Tail(missing), Append(container, info), reversed)

\* lines 132-207: RetrieveToCas into another API
RetrieveToCas(st, local, artifacts_info, reversed) ==
    LET done == Collect(Collected(st, <<>>),
                        local, Unavailable(st.cas, artifacts_info), <<>>, reversed)
        next == [ok |-> done.ok, cas |-> done.cas, stored |-> done.stored,
                 left |-> done.left]
    IN  IF ~done.ok THEN next
        ELSE Upload(next, IF reversed THEN Reverse(done.container) ELSE done.container)

\* every tree of the CAS has its direct entries in the CAS
ContentFirst(cas) ==
    \A o \in cas : \A i \in 1..Len(DirectEntries(o)) : DirectEntries(o)[i] \in cas

IdleUpload == upload = [local |-> {}, target |-> {}, call |-> <<>>]

\* both CAS start with any content a content-first upload can have left
InitUpload ==
    upload \in {[local |-> l, target |-> t, call |-> <<>>] :
                  l \in {c \in SUBSET Objects : ContentFirst(c)},
                  t \in {c \in SUBSET Objects : ContentFirst(c)}}

\* LocalApi::UploadTree of a build root whose blob tree is root
CallUploadTree(root, failing, reversed) ==
    /\ LET st == UploadTree(Transfer(upload.local, failing), root, reversed)
       IN  upload' = [upload EXCEPT
                        !.local = st.cas,
                        !.call = <<[fn |-> "UploadTree", arg |-> <<root>>, same |-> FALSE,
                                    before |-> upload.local, out |-> st.ok,
                                    stored |-> st.stored]>>]
    /\ UNCHANGED besideUpload

\* LocalApi::UploadBlobTree of a blob tree: its content, not its own blob
CallUploadBlobTree(root, failing, reversed) ==
    /\ LET st == UploadBlobTree(Transfer(upload.local, failing), root, reversed)
       IN  upload' = [upload EXCEPT
                        !.local = st.cas,
                        !.call = <<[fn |-> "UploadBlobTree", arg |-> <<root>>, same |-> FALSE,
                                    before |-> upload.local, out |-> st.ok,
                                    stored |-> st.stored]>>]
    /\ UNCHANGED besideUpload

\* LocalApi::RetrieveToCas(artifacts_info, api); same: api is this API
CallRetrieveToCas(artifacts_info, same, failing, reversed) ==
    /\ IF same
         THEN upload' = [upload EXCEPT
                           !.call = <<[fn |-> "RetrieveToCas", arg |-> artifacts_info,
                                       same |-> TRUE, before |-> upload.target,
                                       out |-> TRUE, stored |-> <<>>]>>]
         ELSE LET st == RetrieveToCas(Transfer(upload.target, failing), upload.local,
                                      artifacts_info, reversed)
              IN  upload' = [upload EXCEPT
                               !.target = st.cas,
                               !.call = <<[fn |-> "RetrieveToCas", arg |-> artifacts_info,
                                           same |-> FALSE, before |-> upload.target,
                                           out |-> st.ok, stored |-> st.stored]>>]
    /\ UNCHANGED besideUpload

\* the lists of artifacts asked for
ArtifactLists == {<<"f1">>, <<"s">>, <<"t">>, <<"q">>, <<"f1", "t">>, <<"q", "f2">>}

NextUpload ==
    \/ \E root \in TreeObjects, failing \in FailingStores, reversed \in BOOLEAN :
          CallUploadTree(root, failing, reversed)
    \/ \E root \in TreeObjects, failing \in FailingStores, reversed \in BOOLEAN :
          CallUploadBlobTree(root, failing, reversed)

NextRetrieve ==
    \E artifacts_info \in ArtifactLists, same \in BOOLEAN, failing \in FailingStores,
       reversed \in BOOLEAN :
        CallRetrieveToCas(artifacts_info, same, failing, reversed)

IdleReader == reader = [key |-> "", pc |-> "done", events |-> <<>>]

\* no traversal is under way
IdleExec ==
    /\ g = "lib"
    /\ traverser = IdleTraversal
    /\ build_info = IdleBuildInfo

\* no defining expression is under evaluation
IdleEval ==
    /\ rule_tainted = {}
    /\ actions = <<>>
    /\ trees = <<>>
    /\ call = <<>>

\* no JSON file is asked for
IdleJson ==
    /\ kMandatory = TRUE
    /\ files = [l \in Locations |-> "absent"]
    /\ json_values = <<>>
    /\ json_calls = <<>>

\* no expression is asked about
IdleCache == cacheable = [arg |-> Str("x"), out |-> <<>>]

\* no expression function is asked for
IdleAsked == asked = [fn |-> "", arg |-> <<>>, out |-> <<>>]

\* everything idle but the parts named in active
Idle(active) ==
    /\ IF "eval" \in active THEN TRUE ELSE IdleEval
    /\ IF "json" \in active THEN TRUE ELSE IdleJson
    /\ IF "cache" \in active THEN TRUE ELSE IdleCache
    /\ IF "asked" \in active THEN TRUE ELSE IdleAsked
    /\ IF "exec" \in active THEN TRUE ELSE IdleExec
    /\ IF "local" \in active THEN TRUE ELSE IdleLocal
    /\ IF "reader" \in active THEN TRUE ELSE IdleReader
    /\ IF "rule" \in active THEN TRUE ELSE IdleRule
    /\ IF "upload" \in active THEN TRUE ELSE IdleUpload

InitSide == Idle({})

InitEvaluation == InitMap("graph") /\ InitHash /\ Idle({"eval"}) /\ InitEval

InitJsonFileMap == InitMap("graph") /\ InitHash /\ Idle({"json"}) /\ InitJson

InitCacheable == InitMap("graph") /\ InitHash /\ Idle({"cache"}) /\ InitCache

InitHashPairs == InitMap("graph") /\ InitHash /\ Idle({"asked"}) /\ InitToHash

InitModes == InitMap("graph") /\ InitHash /\ Idle({"asked"}) /\ InitToJson

InitTraversal == InitMap("graph") /\ InitHash /\ Idle({"exec"}) /\ InitTraverser

InitActionCache == InitMap("graph") /\ InitHash /\ Idle({"local"}) /\ InitLocalAC

InitLocalExecution == InitMap("graph") /\ InitHash /\ Idle({"local"}) /\ InitLocalApi

InitOneKey == InitMap("graph") /\ InitHash /\ Idle({"reader"}) /\ InitReader

InitRuleRun == InitMap("graph") /\ InitHash /\ Idle({"rule"}) /\ InitRule

InitUploads == InitMap("graph") /\ InitHash /\ Idle({"upload"}) /\ InitUpload

InitRoundTrip == InitMap("graph") /\ InitHash /\ Idle({"asked"}) /\ InitFromJson

Init == InitMap("graph") /\ InitHash /\ InitSide
InitLive == InitMap("live") /\ InitHash /\ InitSide
InitTaint == InitMap("taint") /\ InitHash /\ InitSide
InitPrune == InitMap("prune") /\ InitHash /\ InitSide
InitConfig == InitMap("config") /\ InitHash /\ InitSide

Next ==
    \/ \E i \in 1..MaxTop : TopRequest(i)
    \/ \E id \in ReqIds : Register(id)
    \/ \E key \in Keys : target_reader(key)
    \/ \E key \in Keys : withRuleDefinition(key)
    \/ \E key \in Keys : resolveAnonymous(key)
    \/ \E key \in Keys : withDependencies(key)
    \/ \E key \in Keys : callSetter(key)
    \/ \E i \in 1..MaxTop : topConsumer(i)
    \/ Cancel

NextHash ==
    \/ \E t \in Threads, e \in Exprs : CallToHash(t, e)
    \/ \E t \in Threads : LoadHash(t)
    \/ \E t \in Threads : ExchangeLoading(t)
    \/ \E t \in Threads : ComputeHash(t)
    \/ \E t \in Threads : StoreHash(t)
    \/ \E t \in Threads : NotifyAll(t)
    \/ \E t \in Threads : WaitHash(t)
    \/ \E t \in Threads : ReturnHash(t)

\* concurrent ToHash calls on shared expressions
SpecHash == Init /\ [][NextHash]_vars

\* the next step of a thread inside ToHash
Running(t) ==
    \/ LoadHash(t)
    \/ ExchangeLoading(t)
    \/ ComputeHash(t)
    \/ StoreHash(t)
    \/ NotifyAll(t)
    \/ WaitHash(t)
    \/ ReturnHash(t)

\* the same calls, every thread that is not blocked in wait being scheduled
\* again and again
SpecHashLive == Init /\ [][NextHash]_vars /\ \A t \in Threads : WF_vars(Running(t))

NextEval ==
    \/ \E arg \in ActionArgs : CallACTION(arg)
    \/ \E val \in TreeArgs : CallTREE(val)

\* IsCacheable asked of every expression nested at most MaxNest deep
SpecCache == InitCacheable /\ [][CallIsCacheable]_vars

\* the hashes of every two expressions nested at most MaxNest deep
SpecHashPairs == InitHashPairs /\ [][CallComputeHash]_vars

\* every expression nested at most MaxNest deep, written in the three modes
SpecModes == InitModes /\ [][CallToJson]_vars

\* up to MaxTraverse calls of Traverse on one traverser, the tasks of each
\* taken by the workers in any order
SpecTraverser == InitTraversal /\ [][NextTraverser]_vars

\* one key of each kind through the reader of the target map
SpecReader == InitOneKey /\ [][NextReader]_vars

\* one run of withRuleDefinition per rule of the menu
SpecRule == InitRuleRun /\ [][NextRule]_vars

\* trees uploaded into the CAS of this API, one call after the other
SpecUpload == InitUploads /\ [][NextUpload]_vars
\* artifacts transferred from the CAS of this API into that of a target API
SpecRetrieve == InitUploads /\ [][NextRetrieve]_vars

\* up to MaxExecute executions of one local action, under either flag
SpecLocalApi == InitLocalExecution /\ [][NextLocalApi]_vars

\* up to MaxStores stores into one action cache, and lookups between them
SpecLocalAC == InitActionCache /\ [][NextLocalAC]_vars

\* every JSON value nested at most MaxNest deep, read and written again
SpecRoundTrip == InitRoundTrip /\ [][CallFromJson]_vars

NextJson == \E key \in ModuleNames : ReadJsonFile(key)

\* the JSON file maps over every file root of two locations
SpecJson == InitJsonFileMap /\ [][NextJson]_vars

\* the evaluation of a defining expression that calls ACTION and TREE
SpecEval == InitEvaluation /\ [][NextEval]_vars

\* the async map over the dependency graphs of the "graph" family
Spec == Init /\ [][Next]_vars
\* what the workers of the task system do
Work ==
    \/ \E id \in ReqIds : Register(id)
    \/ \E key \in Keys : target_reader(key)
    \/ \E key \in Keys : withRuleDefinition(key)
    \/ \E key \in Keys : resolveAnonymous(key)
    \/ \E key \in Keys : withDependencies(key)
    \/ \E key \in Keys : callSetter(key)
    \/ \E i \in 1..MaxTop : topConsumer(i)

NextLive ==
    \/ \E i \in 1..MaxTop : TopRequest(i)
    \/ \E id \in ReqIds : Register(id)
    \/ \E key \in Keys : target_reader(key)
    \/ \E key \in Keys : withRuleDefinition(key)
    \/ \E key \in Keys : resolveAnonymous(key)
    \/ \E key \in Keys : withDependencies(key)
    \/ \E key \in Keys : callSetter(key)
    \/ \E i \in 1..MaxTop : topConsumer(i)

\* a run that is not aborted: the workers run every task that is queued
LiveSpec == InitLive /\ [][NextLive]_vars /\ WF_vars(Work)

\* the same engine over tainted rules and anonymous targets
SpecTaint == InitTaint /\ [][Next]_vars
\* the same engine over configurations and transitions
SpecConfig == InitConfig /\ [][Next]_vars
\* one target requested under a configuration and under its pruning
SpecPrune == InitPrune /\ [][Next]_vars

(***************************************************************************)
(* Properties of the async keyed map.                                     *)
(***************************************************************************)
Count(seq, x) == Cardinality({i \in 1..Len(seq) : seq[i] = x})

\* C1: for every key the reader is invoked at most once, whatever the
\* interleaving of the requests that name it
C1_ReaderAtMostOncePerKey ==
    \A k \in Keys : Count(readerRuns[k.target], k.config) <= 1

\* two different requests wait on the same in_progress key, whose reader
\* has run
C1_Witness ==
    \E id1 \in DOMAIN reqs, id2 \in DOMAIN reqs :
        /\ id1 # id2
        /\ \E k \in DOMAIN node :
              /\ node[k].state = "in_progress"
              /\ WaitsFor(reqs[id1], {k})
              /\ WaitsFor(reqs[id2], {k})
              /\ Count(readerRuns[k.target], k.config) = 1

\* the requests whose continuation has been queued or has run
Fired == {id \in DOMAIN reqs : reqs[id].status \in {"queued", "done"}}

\* the values withDependencies receives for key k
DependencyValues(k) == reqs[<<k, "anon">>].dv \o Values(reqs[<<k, "anon">>])

\* C3: a continuation registered for [k1..kn] runs only after every ki is
\* ready and observes [v1..vn] in the order of the keys; withDependencies
\* pairs transition_keys[i] with the value of the i-th issued request
C3_FanInInKeyOrder ==
    /\ \A id \in Fired :
          \A i \in 1..Len(reqs[id].keys) :
              /\ StateOf(node, reqs[id].keys[i]) = "ready"
              /\ reqs[id].got[i] = node[reqs[id].keys[i]].value
    /\ \A k \in Keys :
          (<<k, "anon">> \in Fired) =>
              LET first == reqs[<<k, "first">>]
                  tk == reqs[<<k, "anon">>].tk
              IN  \A i \in 1..Len(first.keys) :
                      /\ tk[i].target = first.keys[i].target
                      /\ deps_by_transition(tk, DependencyValues(k))[tk[i]]
                            = node[first.keys[i]].value[1]

\* position of the first setter call for key k
SetAt(k) == CHOOSE i \in 1..Len(setterCalls) : setterCalls[i][1] = k

\* a continuation over two different keys has fired although the second
\* key became ready before the first
C3_Witness ==
    \E k \in Keys :
        /\ <<k, "anon">> \in Fired
        /\ Len(reqs[<<k, "first">>].keys) = 2
        /\ LET k1 == reqs[<<k, "first">>].keys[1]
               k2 == reqs[<<k, "first">>].keys[2]
           IN  /\ k1.target # k2.target
               /\ \E i \in 1..Len(setterCalls) : setterCalls[i][1] = k1
               /\ \E i \in 1..Len(setterCalls) : setterCalls[i][1] = k2
               /\ SetAt(k2) < SetAt(k1)

\* C4: the continuation of a request is called only when all its keys are
\* ready; if a key the request has reached fails, fail_logger is notified,
\* the continuation is never called and the requesting key fails too
C4_FailureNotifiesNotContinues ==
    \A id \in DOMAIN reqs :
        /\ reqs[id].status \in {"queued", "done"} =>
              \A i \in 1..Len(reqs[id].keys) : StateOf(node, reqs[id].keys[i]) = "ready"
        /\ (\E i \in 1..reqs[id].pos : StateOf(node, reqs[id].keys[i]) = "failed") =>
              /\ reqs[id].status \in {"failed", "dropped"}
              /\ ~cancelled => reqs[id].status = "failed"
              /\ Task("cont", id[1], id[2], <<>>) \notin queue
              /\ id[1] \in Keys => node[id[1]].state = "failed"

\* a request over two keys was notified of a failure while its other key
\* is ready
C4_Witness ==
    \E id \in DOMAIN reqs :
        /\ reqs[id].status = "failed"
        /\ ~cancelled
        /\ id[1] \in Keys
        /\ \E i \in 1..reqs[id].pos, j \in 1..reqs[id].pos :
              /\ StateOf(node, reqs[id].keys[i]) = "failed"
              /\ StateOf(node, reqs[id].keys[j]) = "ready"

\* C5: ready and failed are terminal: the node of such a key never changes
\* and its reader is never run or queued again; a request that reaches a
\* failed key is given the stored failure
C5_TerminalStates ==
    [][/\ \A k \in DOMAIN node :
             node[k].state \in {"ready", "failed"} =>
                 /\ node'[k] = node[k]
                 /\ Task("reader", k, "", <<>>) \notin queue'
                 /\ Count(readerRuns'[k.target], k.config) = Count(readerRuns[k.target], k.config)
       /\ \A id \in DOMAIN reqs :
             (/\ ~cancelled
              /\ reqs[id].status = "open"
              /\ reqs'[id].pos = reqs[id].pos + 1
              /\ StateOf(node, reqs'[id].keys[reqs'[id].pos]) = "failed") =>
                 /\ reqs'[id].status = "failed"
                 /\ reqs'[id].why = node[reqs'[id].keys[reqs'[id].pos]].why]_vars

\* a request reached a key that had already failed and was given its
\* failure; the reader of that key ran once
C5_Witness ==
    \E id \in DOMAIN reqs :
        /\ reqs[id].late
        /\ ~cancelled
        /\ LET k == reqs[id].keys[reqs[id].pos]
           IN  /\ node[k].state = "failed"
               /\ reqs[id].why = node[k].why
               /\ Count(readerRuns[k.target], k.config) = 1

KeyA == [target |-> "a", config |-> EmptyConf]
KeyB == [target |-> "b", config |-> EmptyConf]

\* the readers of a and b form the request cycle a -> b -> a
PureCycleAB ==
    /\ desc["a"] = <<PlainRule(<<"b">>)>>
    /\ desc["b"] = <<PlainRule(<<"a">>)>>

\* both keys have failed with a cycle error, every top-level call issued
\* has been failed with it, and no task is queued
CycleSettled ==
    /\ StateOf(node, KeyA) = "failed" /\ node[KeyA].why = "cycle"
    /\ StateOf(node, KeyB) = "failed" /\ node[KeyB].why = "cycle"
    /\ \A id \in DOMAIN reqs :
          id[2] = "top" => reqs[id].status = "failed" /\ reqs[id].why = "cycle"
    /\ queue = {}

\* C2: readers that form a request cycle a -> b -> a make both keys fail,
\* the top-level analysis fail with a cycle error, and leave no task queued
C2_CycleFailsBothKeys == PureCycleAB ~> CycleSettled

C2_Witness == PureCycleAB /\ CycleSettled /\ DOMAIN reqs # {}

\* every requested key is ready or failed and nothing is left to run
AllSettled ==
    /\ \A k \in DOMAIN node : node[k].state \in {"ready", "failed"}
    /\ \A id \in DOMAIN reqs : reqs[id].status \in {"done", "failed"}
    /\ queue = {}

\* C6: readers and continuations never wait, so every requested key
\* eventually becomes ready or failed and stays so; a cycle ends in failure
C6_EveryRequestedKeySettles == <>[]AllSettled

\* a key with two dependencies, one of them with a dependency of its own,
\* has become ready and nothing is left to run
C6_Witness ==
    /\ AllSettled
    /\ StateOf(node, KeyA) = "ready"
    /\ desc["a"] = <<PlainRule(<<"b", "c">>)>>
    /\ desc["b"] = <<PlainRule(<<"c">>)>>

\* C7: the step that aborts the run fails every key that is pending or in
\* progress, leaves every ready key its value and empties the queue; after
\* it no key changes, no reader or setter runs and no continuation is run
C7_CancellationFailsOpenKeys ==
    [][/\ (~cancelled /\ cancelled') =>
            /\ \A k \in Keys :
                  StateOf(node, k) \in {"pending", "in_progress"} =>
                      StateOf(node', k) = "failed"
            /\ \A k \in DOMAIN node :
                  node[k].state = "ready" => node'[k] = node[k]
            /\ \A id \in DOMAIN reqs :
                  reqs[id].status \in {"open", "queued"} =>
                      reqs'[id].status \notin {"open", "queued", "done"}
            /\ queue' = {}
       /\ cancelled =>
            /\ cancelled'
            /\ node' = node
            /\ queue' = {}
            /\ readerRuns' = readerRuns
            /\ setterCalls' = setterCalls
            /\ \A id \in DOMAIN reqs' :
                  reqs'[id].status = "done" =>
                      id \in DOMAIN reqs /\ reqs[id].status = "done"
            /\ \A id \in DOMAIN reqs' :
                  reqs'[id].status \notin {"open", "queued"}]_vars

\* the run was aborted while one key was ready, another was in progress and
\* a continuation was outstanding; a call made afterwards found the failure
C7_Witness ==
    /\ cancelled
    /\ \E k \in DOMAIN node : node[k].state = "ready"
    /\ \E k \in DOMAIN node :
          /\ node[k].state = "failed" /\ node[k].why = "cancel"
          /\ Count(readerRuns[k.target], k.config) = 1
    /\ \E id \in DOMAIN reqs : reqs[id].status = "dropped" /\ reqs[id].pos > 0
    /\ \E id \in DOMAIN reqs : reqs[id].status = "failed" /\ reqs[id].pos = 0

\* the registry key of a setter call: the target under its effective configuration
EffectiveKey(sc) == RegKey(sc[1].target, Prune(sc[1].config, sc[2].vars))

\* the setter calls made at the end of a rule's analysis (line 728)
RuleCalls ==
    {i \in 1..Len(setterCalls) : DescOf(setterCalls[i][1].target).kind = "rule"}

\* every such call passed on the registry's entry for its effective key
SettersGetRegistryEntry ==
    /\ \A i \in RuleCalls :
          /\ EffectiveKey(setterCalls[i]) \in DOMAIN registry
          /\ registry[EffectiveKey(setterCalls[i])] = setterCalls[i][2]
    /\ \A i, j \in RuleCalls :
          EffectiveKey(setterCalls[i]) = EffectiveKey(setterCalls[j]) =>
              setterCalls[i][2] = setterCalls[j][2]

\* C8: an entry of the registry, once installed, is what every later add for
\* its (target, effective configuration) returns; the value a key's setter
\* receives is the registry's entry and not the candidate, so that all
\* analyses with the same target and effective configuration share one value
C8_RegistryCanonical ==
    [][/\ \A rk \in DOMAIN registry :
             rk \in DOMAIN registry' /\ registry'[rk] = registry[rk]
       /\ SettersGetRegistryEntry']_vars

\* two keys of one target with the same effective configuration were
\* analysed: the second add found the first one's entry, and its setter
\* received that entry and not its own candidate
C8_Witness ==
    \E i, j \in RuleCalls :
        /\ i < j
        /\ setterCalls[i][1] # setterCalls[j][1]
        /\ setterCalls[i][2] = setterCalls[j][2]
        /\ setterCalls[i][2].origin = setterCalls[i][1]
        /\ setterCalls[j][2].origin # setterCalls[j][1]

(***************************************************************************)
(* Properties of Expression::ToHash.                                      *)
(***************************************************************************)
\* the digest of an expression, computed bottom-up
RECURSIVE Digest(_)
Digest(e) ==
    IF Children(e) = <<>> THEN AtomDigest(e) ELSE ListDigest(<<Digest(Children(e)[1])>>)

\* C9: for each expression ComputeHash is entered by at most one caller and
\* hash_ is written at most once; no caller reaches the return before the
\* hash is published, and every caller returns the one published digest
C9_ToHashOneShot ==
    /\ \A e \in Exprs :
          /\ computed[e].runs <= 1
          /\ computed[e].stores <= 1
          /\ hash_[e] \in {<<>>, <<Digest(e)>>}
    /\ \A t \in Threads :
          /\ At(t, "ret") => hash_[Top(t).e] # <<>>
          /\ thr[t].ret # <<>> => thr[t].ret[1] = <<Digest(thr[t].called[1])>>

\* one caller of the list has returned its digest while another, which
\* lost the exchange, is still at the wait; a third one also returned
C9_Witness ==
    \E t, u, w \in Threads :
        /\ t # u /\ t # w /\ u # w
        /\ thr[t].called = <<"L">> /\ thr[t].ret = <<<<Digest("L")>>>>
        /\ thr[w].called = <<"L">> /\ thr[w].ret = <<<<Digest("L")>>>>
        /\ thr[u].called = <<"L">> /\ At(u, "wait")
        /\ computed["L"].runs = 1

(***************************************************************************)
(* Properties of the analysis of a user-rule target.                      *)
(***************************************************************************)
\* the keys whose withDependencies has run
Analysed == {k \in Keys : StatusOf(reqs, <<k, "anon">>) = "done"}

\* the values handed, or about to be handed, to the setter of key k
SetterValues(k) ==
    {setterCalls[i][2] : i \in {j \in 1..Len(setterCalls) : setterCalls[j][1] = k}}
    \cup {task.val[1] : task \in {x \in queue : x.kind = "setter" /\ x.owner = k}}

\* C10: the taints of a successfully analysed rule target are its evaluated
\* tainted expression united with the rule's taints, and they include the
\* taints of every dependency, first-wave or anonymous; when a dependency
\* carries a taint outside that set the key fails and no setter is called
C10_TaintMonotone ==
    \A k \in Analysed :
        LET d == DescOf(k.target)
            own == d.texpr \cup d.rtaint
            deps == DependencyValues(k)
        IN  IF \A i \in 1..Len(deps) : deps[i].tainted \subseteq own
              THEN /\ \A v \in SetterValues(k) : v.tainted = own
                   /\ node[k].state = "ready" =>
                         /\ node[k].value[1].tainted = own
                         /\ \A i \in 1..Len(deps) :
                               deps[i].tainted \subseteq node[k].value[1].tainted
              ELSE /\ node[k].state = "failed"
                   /\ node[k].why = "taint"
                   /\ SetterValues(k) = {}

\* a tainted rule target became ready over a tainted first-wave dependency
\* and a tainted anonymous one
C10_Witness ==
    \E k \in Analysed :
        LET deps == DependencyValues(k)
            n == Len(reqs[<<k, "first">>].keys)
        IN  /\ node[k].state = "ready"
            /\ node[k].value[1].tainted = {"t"}
            /\ \E i \in 1..n : deps[i].tainted = {"t"}
            /\ \E i \in (n + 1)..Len(deps) : deps[i].tainted = {"t"}

\* the variables dependency value i brings in: those its transition leaves open
OpenVars(tk, deps, i) == {x \in deps[i].vars : tk[i].config[x] = Unset}

\* C11: the variables of an analysed rule target are its target_vars, the
\* rule's config_vars and, for every dependency value, anonymous ones
\* included, the variables of the value that the transition it was
\* requested under does not fix; the target is registered under its
\* configuration pruned to these variables
C11_EffectiveVars ==
    \A k \in Analysed :
        LET d == DescOf(k.target)
            tk == reqs[<<k, "anon">>].tk
            deps == DependencyValues(k)
            ev == d.tvars \cup d.cvars
                    \cup UNION {OpenVars(tk, deps, i) : i \in 1..Len(deps)}
            rk == [target |-> k.target,
                   config |-> [x \in Vars |-> IF x \in ev THEN k.config[x] ELSE Unset]]
        IN  /\ Len(tk) = Len(deps)
            /\ rk \in DOMAIN registry
            /\ registry[rk].vars = ev
            /\ \A v \in SetterValues(k) : v = registry[rk]

\* a target analysed under M = opt has a first-wave dependency whose
\* variable its transition fixes and an anonymous dependency whose variable
\* is left open: it depends on M through the anonymous one alone
C11_Witness ==
    \E k \in Analysed :
        LET d == DescOf(k.target)
            tk == reqs[<<k, "anon">>].tk
            deps == DependencyValues(k)
            n == Len(reqs[<<k, "first">>].keys)
        IN  /\ node[k].state = "ready"
            /\ k.config = Opt
            /\ d.tvars = {}
            /\ node[k].value[1].vars = {"M"}
            /\ \E i \in 1..n : deps[i].vars = {"M"} /\ OpenVars(tk, deps, i) = {}
            /\ \E i \in (n + 1)..Len(deps) : OpenVars(tk, deps, i) = {"M"}

\* what key k's own analysis computed, before the registry was asked
Candidate(k) ==
    analysis_result(DescOf(k.target), k, reqs[<<k, "anon">>].tk, DependencyValues(k))

\* the content of an analysed target, without the identity of the object
Content(v) == [result |-> v.result, vars |-> v.vars, tainted |-> v.tainted,
               nodes |-> v.nodes]

\* C12: when the effective variables of (t, c) lie within V, the analyses
\* of (t, c) and of (t, c pruned to V) compute results with equal content,
\* and the values the two keys are set to are equal
C12_ConfigPruning ==
    \A k1, k2 \in Analysed :
        \A V \in SUBSET Vars :
            (/\ k1.target = k2.target
             /\ Candidate(k1).vars \subseteq V
             /\ k2.config = [x \in Vars |-> IF x \in V THEN k1.config[x] ELSE Unset])
            => /\ Content(Candidate(k1)) = Content(Candidate(k2))
               /\ \A v1 \in SetterValues(k1), v2 \in SetterValues(k2) :
                     Content(v1) = Content(v2)

\* one target was analysed under a configuration that sets M and under the
\* empty one, and does not depend on M: two different keys, equal content
C12_Witness ==
    \E k1, k2 \in Analysed :
        /\ k1.target = k2.target
        /\ Len(DependencyValues(k1)) > 0
        /\ k1.config # EmptyConf
        /\ k2.config = EmptyConf
        /\ Candidate(k1).vars = {}
        /\ node[k1].state = "ready" /\ node[k2].state = "ready"
        /\ Content(node[k1].value[1]) = Content(Candidate(k2))

(***************************************************************************)
(* C13                                                                     *)
(***************************************************************************)
\* the names a list expression holds
Names(e) == {e.l[i].s : i \in {j \in 1..Len(e.l) : IsString(e.l[j])}}

\* the call breaks one of the four conditions on an action
BreaksActionConditions(arg) ==
    \/ IsList(arg.outs) /\ IsList(arg.out_dirs) /\ Names(arg.outs) \cup Names(arg.out_dirs) = {}
    \/ IsList(arg.outs) /\ IsList(arg.out_dirs) /\ Names(arg.outs) \cap Names(arg.out_dirs) # {}
    \/ IsList(arg.cmd) /\ arg.cmd.l = <<>>
    \/ IsMap(arg.inputs) /\ \E p, q \in MapKeys(arg.inputs) : StrictPrefix(p, q)

RecordedActionsSound ==
    \A i \in 1..Len(actions) :
        /\ Range(actions[i].outs) \cup Range(actions[i].out_dirs) # {}
        /\ Range(actions[i].outs) \cap Range(actions[i].out_dirs) = {}
        /\ actions[i].cmd # <<>>
        /\ ~\E p, q \in MapKeys(actions[i].inputs) : StrictPrefix(p, q)

\* C13: every recorded action has outs and out_dirs not both empty and
\* disjoint, a non-empty cmd, and inputs in which no path is a prefix of
\* another; an ACTION call that breaks one of these ends in an evaluation
\* error and records nothing.
C13_ActionDisjointness ==
    [][/\ RecordedActionsSound'
       /\ (call' # call /\ call'[1].fn = "ACTION" /\ BreaksActionConditions(call'[1].arg))
            => (call'[1].out[1] = "error" /\ actions' = actions)]_vars

\* one action is recorded and the next call, with o1 in outs and in out_dirs, is refused
C13_Witness ==
    /\ Len(actions) = 1
    /\ call # <<>>
    /\ call[1].fn = "ACTION"
    /\ call[1].n = 2
    /\ call[1].out = <<"error", "outs and out_dirs must be disjoint">>
    /\ "o1" \in Names(call[1].arg.outs) \cap Names(call[1].arg.out_dirs)

(***************************************************************************)
(* C14                                                                     *)
(***************************************************************************)
\* the taint strings an ACTION call lists
ListedTaints(arg) == Names(arg.may_fail) \cup Names(arg.no_cache)

Marked(a) == a.may_fail # <<>> \/ a.no_cache

\* C14: an ACTION call whose may_fail or no_cache lists a string that is not
\* a taint of the rule ends in an evaluation error and records nothing; an
\* action marked may-fail or no-cache is recorded only by a call that lists
\* at least one string, all of them taints of the rule.
C14_TaintedMarks ==
    [][(call' # call /\ call'[1].fn = "ACTION") =>
           /\ ~(ListedTaints(call'[1].arg) \subseteq rule_tainted)
                => (call'[1].out[1] = "error" /\ actions' = actions)
           /\ (actions' # actions /\ Marked(actions'[Len(actions')]))
                => /\ ListedTaints(call'[1].arg) # {}
                   /\ ListedTaints(call'[1].arg) \subseteq rule_tainted'
                   /\ (actions'[Len(actions')].may_fail # <<>>)
                        = (Names(call'[1].arg.may_fail) # {})
                   /\ actions'[Len(actions')].no_cache
                        = (Names(call'[1].arg.no_cache) # {})]_vars

\* a tainted rule has recorded a may-fail, no-cache action, and its next call,
\* listing a string the rule is not tainted with, is refused
C14_Witness ==
    /\ rule_tainted = {"t"}
    /\ Len(actions) = 1
    /\ actions[1].may_fail # <<>>
    /\ actions[1].no_cache
    /\ call # <<>>
    /\ call[1].fn = "ACTION"
    /\ call[1].n = 2
    /\ "u" \in Names(call[1].arg.no_cache)
    /\ call[1].out = <<"error", "no_cache">>

(***************************************************************************)
(* C15                                                                     *)
(***************************************************************************)
\* the keys "", ".", and "a/..", which are "." or "" once normalised
SpecialPaths == {<<>>, <<".">>, <<"a", "..">>}

\* C15: TREE on a map with a key that is "." or "" after lexical
\* normalisation returns the entry itself when the map has this one entry and
\* the entry is a tree artifact, and is an evaluation error otherwise (the
\* entry is no tree, or the map has a further entry); in neither case is a
\* tree appended to the tree list.
C15_TreeDotSpecialCase ==
    [][(/\ call' # call
        /\ call'[1].fn = "TREE"
        /\ IsMap(call'[1].arg)
        /\ MapKeys(call'[1].arg) \cap SpecialPaths # {}) =>
           /\ trees' = trees
           /\ call'[1].out =
                IF Len(call'[1].arg.m) = 1 /\ IsTree(call'[1].arg.m[1][2])
                  THEN <<"entry", call'[1].arg.m[1][2]>>
                  ELSE <<"error">>]_vars

\* after one tree was built, TREE on {"a/..": x} with a tree x returns x and
\* the tree list still holds the one tree
C15_Witness ==
    /\ Len(trees) = 1
    /\ call # <<>>
    /\ call[1].fn = "TREE"
    /\ call[1].n = 2
    /\ call[1].arg = Map(<< << <<"a", "..">>, Artifact("tree") >> >>)
    /\ call[1].out = <<"entry", Artifact("tree")>>

(***************************************************************************)
(* C16                                                                     *)
(***************************************************************************)
\* the positions of the first-wave request of k that ask for dependency j
\* under transition i
PairPositions(k, i, j) ==
    {p \in 1..Len(reqs[<<k, "first">>].keys) :
        /\ reqs[<<k, "first">>].keys[p] =
              [target |-> DescOf(k.target).deps[j],
               config |-> Update(k.config, DescOf(k.target).trans[i])]
        /\ reqs[<<k, "first">>].tk[p] =
              [target |-> DescOf(k.target).deps[j],
               config |-> DescOf(k.target).trans[i]]}

\* C16: the first-wave request of a rule target with transitions T1..Tm and
\* dependencies d1..dn of its target field holds m*n keys, and every pair
\* (Ti, dj) has its own position in it, whose key is (dj, config.update(Ti)).
C16_TransitionFanOut ==
    \A k \in Keys :
        <<k, "first">> \in DOMAIN reqs =>
            LET m == Len(DescOf(k.target).trans)
                n == Len(DescOf(k.target).deps)
            IN  /\ Len(reqs[<<k, "first">>].keys) = m * n
                /\ \A i \in 1..m, j \in 1..n :
                      ((i - 1) * n + j) \in PairPositions(k, i, j)
                /\ \A p \in 1..(m * n) :
                      Cardinality({ij \in (1..m) \X (1..n) :
                                     (ij[1] - 1) * n + ij[2] = p}) = 1

\* transitions {M:dbg},{M:opt} over the dependencies b, c: four requests, b
\* and c each under M=dbg and under M=opt, all of them answered
C16_Witness ==
    \E k \in Keys :
        /\ StatusOf(reqs, <<k, "first">>) = "done"
        /\ DescOf(k.target).trans = <<Dbg, Opt>>
        /\ Len(DescOf(k.target).deps) = 2
        /\ reqs[<<k, "first">>].pos = 4
        /\ Range(reqs[<<k, "first">>].keys) =
              [target : Range(DescOf(k.target).deps), config : {Dbg, Opt}]
        /\ \A dk \in Range(reqs[<<k, "first">>].keys) : node[dk].state = "ready"

(***************************************************************************)
(* C17                                                                     *)
(***************************************************************************)
FirstWave(k) == reqs[<<k, "first">>]
AnonWave(k) == reqs[<<k, "anon">>]

\* withDependencies has run for k: it has failed k over a taint, or has
\* entered k's result into the registry
Evaluated(k) == StatusOf(reqs, <<k, "anon">>) = "done"

\* C17: the anonymous-target request of a target exists only once its
\* first-wave request has delivered a ready value for every first-wave key,
\* and it carries exactly those values; withDependencies, which evaluates
\* the string fields and the defining expression, has run only once every
\* anonymous key is ready as well; a target whose first wave failed, or
\* which has a failed first-wave dependency, has no anonymous request.
C17_TwoWaveOrdering ==
    \A k \in Keys :
        /\ <<k, "anon">> \in DOMAIN reqs =>
              /\ StatusOf(reqs, <<k, "first">>) = "done"
              /\ \A i \in 1..Len(FirstWave(k).keys) :
                    /\ StateOf(node, FirstWave(k).keys[i]) = "ready"
                    /\ AnonWave(k).dv[i] = node[FirstWave(k).keys[i]].value[1]
        /\ Evaluated(k) =>
              \A i \in 1..Len(AnonWave(k).keys) :
                  /\ StateOf(node, AnonWave(k).keys[i]) = "ready"
                  /\ AnonWave(k).got[i] = <<node[AnonWave(k).keys[i]].value[1]>>
        /\ (<<k, "first">> \in DOMAIN reqs
             /\ (\/ FirstWave(k).status = "failed"
                 \/ \E i \in 1..Len(FirstWave(k).keys) :
                        StateOf(node, FirstWave(k).keys[i]) = "failed"))
              => <<k, "anon">> \notin DOMAIN reqs

\* a target with two first-wave dependencies and an anonymous target has
\* been evaluated: both waves are done and every key of both is ready
C17_Witness ==
    \E k \in Keys :
        /\ Evaluated(k)
        /\ Len(FirstWave(k).keys) = 2
        /\ Len(AnonWave(k).keys) = 1
        /\ AnonWave(k).keys[1].target \in Anon
        /\ node[AnonWave(k).keys[1]].state = "ready"

(***************************************************************************)
(* C18                                                                     *)
(***************************************************************************)
\* the modules of ModulePaths that lie inside the repository, and those
\* that are absolute or lead out of it
InsideModules == {<<>>, <<".">>, <<"a">>, <<"a", "..">>}
OutsideModules == {<<"..", "a">>, <<"a", "..", "..">>, <<"/", "a">>, <<"/", "..">>}

\* where <module>/TARGETS of a module inside the repository is
FileLocation(m) == IF m = <<"a">> THEN <<"a", "TARGETS">> ELSE <<"TARGETS">>

Operations(o) == {o.access[i][1] : i \in 1..Len(o.access)}

\* the keys the reader ran for that name a module inside a known repository
ReadInside == {key \in DOMAIN json_values :
                 key.repository = "main" /\ key.module \in InsideModules}

\* C18: for a key whose file <module>/<file-name> does not exist under the
\* root, a non-mandatory map calls the setter with the empty JSON object
\* and a mandatory map fails the key; the file is read in neither case.
C18_MissingFile ==
    \A key \in ReadInside :
        files[FileLocation(key.module)] = "absent" =>
            /\ "ReadFile" \notin Operations(json_values[key])
            /\ IF kMandatory
                 THEN /\ json_values[key].status = "failed"
                      /\ json_values[key].value = <<>>
                 ELSE /\ json_values[key].status = "set"
                      /\ json_values[key].value = <<Json("object", {})>>

\* a non-mandatory map was asked for module a, whose TARGETS file is
\* missing while the top-level one exists: the key holds the empty object
C18_Witness ==
    /\ ~kMandatory
    /\ files[<<"a", "TARGETS">>] = "absent"
    /\ files[<<"TARGETS">>] = "{\"a\": 1}"
    /\ [repository |-> "main", module |-> <<"a">>] \in DOMAIN json_values
    /\ json_values[[repository |-> "main", module |-> <<"a">>]] =
          Outcome("set", <<Json("object", {})>>, "",
                  << <<"IsFile", <<"a", "TARGETS">> >> >>)

RECURSIVE Inside(_)
Inside(e) ==
    {e} \cup UNION {Inside(e.l[i]) : i \in 1..Len(e.l)}
        \cup UNION {Inside(e.m[i][2]) : i \in 1..Len(e.m)}

NotCacheableLeaves == {Name, Result(FALSE), Node(FALSE)}

\* C20: IsCacheable() is false exactly for the expressions that hold, at any
\* depth through lists and maps, an entity name, a target result that is
\* not cacheable or a target node that is not cacheable.
C20_IsCacheable ==
    cacheable.out # <<>> =>
        cacheable.out[1] = (Inside(cacheable.arg) \cap NotCacheableLeaves = {})

\* asked about a list whose map entry holds a name two levels down, the
\* answer was false
C20_Witness ==
    /\ cacheable.arg = List(<<Str("x"), Map(<< <<<<"k">>, Name>> >>)>>)
    /\ cacheable.out = <<FALSE>>

(***************************************************************************)
(* C21                                                                     *)
(***************************************************************************)
\* the value a map has at a key
ValueAt(e, key) == (CHOOSE p \in Range(e.m) : p[1] = key)[2]

\* structural equality: the same variant and value, lists equal entry by
\* entry, maps with the same keys and equal values at every key
RECURSIVE StructurallyEqual(_, _)
StructurallyEqual(a, b) ==
    /\ a.type = b.type
    /\ a.s = b.s
    /\ Len(a.l) = Len(b.l)
    /\ \A i \in 1..Len(a.l) : StructurallyEqual(a.l[i], b.l[i])
    /\ MapKeys(a) = MapKeys(b)
    /\ \A key \in MapKeys(a) : StructurallyEqual(ValueAt(a, key), ValueAt(b, key))

\* C21: two structurally equal expressions have equal hashes, whatever the
\* order in which the entries of their maps were inserted.
C21_HashDeterminism ==
    (asked.fn = "ToHash" /\ asked.out # <<>>
     /\ StructurallyEqual(asked.arg[1], asked.arg[2]))
        => asked.out[1] = asked.out[2]

\* {x:1, y:x} nested in a map and built in the two orders of insertion, at
\* both levels: the two hashes are equal
C21_Witness ==
    /\ asked.fn = "ToHash"
    /\ asked.arg[1] = Map(<< <<<<"x">>, Map(<< <<<<"x">>, Number("1")>>,
                                                <<<<"y">>, Str("x")>> >>)>>,
                              <<<<"y">>, Number("1")>> >>)
    /\ asked.arg[2] = Map(<< <<<<"y">>, Number("1")>>,
                              <<<<"x">>, Map(<< <<<<"y">>, Str("x")>>,
                                                <<<<"x">>, Number("1")>> >>)>> >>)
    /\ asked.out # <<>>
    /\ asked.out[1] = asked.out[2]

Opaque == {"artifact", "result", "node", "name"}

\* what to_json(mode) returns as stated: lists and maps hand the mode to
\* their entries, null-for-non-json turns the opaque variants into null,
\* serialize-all-but-nodes turns a node into {type: NODE, id: <hash>} and all
\* else is written in full.  With everyNode, every node is so replaced and
\* the fields of a target result are always written in
\* serialize-all-but-nodes; without it, only abstract nodes are replaced
\* and the fields of a target result are written in the mode asked for.
RECURSIVE Stated(_, _, _)
Stated(e, mode, everyNode) ==
    CASE e.type = "list" ->
           JArray([i \in 1..Len(e.l) |-> Stated(e.l[i], mode, everyNode)])
      [] e.type = "map" ->
           JObject([i \in 1..Len(e.m) |->
                      <<e.m[i][1][1], Stated(e.m[i][2], mode, everyNode)>>])
      [] e.type \in Opaque /\ mode = "NullForNonJson" -> JNull
      [] e.type = "node" /\ mode = "SerializeAll" -> NodeToJson(e)
      [] e.type = "node" /\ mode = "SerializeAllButNodes" ->
           IF everyNode \/ e.s = "abstract" THEN NodeReference(e) ELSE NodeToJson(e)
      [] e.type = "result" /\ mode # "NullForNonJson" ->
           LET fields == IF everyNode THEN "SerializeAllButNodes" ELSE mode
           IN  JObject(<< <<"artifact_stage", Stated(e.l[1], fields, everyNode)>>,
                          <<"provides", Stated(e.l[2], fields, everyNode)>>,
                          <<"runfiles", Stated(e.l[3], fields, everyNode)>> >>)
      [] e.type = "artifact" /\ mode # "NullForNonJson" -> ArtifactToJson(e)
      [] e.type = "name" /\ mode # "NullForNonJson" -> NameToJson(e)
      [] e.type = "bool" -> JBool(e.s)
      [] e.type = "number" -> JFloat(e.s)
      [] e.type = "string" -> JString(e.s)
      [] OTHER -> JNull

\* C23 as stated: serialize-all writes every variant in full, the nodes
\* inside a target result too, and serialize-all-but-nodes replaces abstract
\* nodes only.
C23_ModesAsStated ==
    (asked.fn = "ToJson" /\ asked.out # <<>>) =>
        \A i \in 1..Len(JsonModes) : asked.out[i] = Stated(asked.arg[1], JsonModes[i], FALSE)

\* C23: serialize-all writes every variant in full except that the fields
\* of a target result are written in serialize-all-but-nodes, whatever the
\* mode; serialize-all-but-nodes replaces every node, abstract or value, by
\* {type: NODE, id: <hash>} and writes all else in full; null-for-non-json
\* turns artifact, result, node and name into null; lists and maps hand the
\* mode unchanged to their entries.
C23_Modes ==
    (asked.fn = "ToJson" /\ asked.out # <<>>) =>
        \A i \in 1..Len(JsonModes) : asked.out[i] = Stated(asked.arg[1], JsonModes[i], TRUE)

\* a target result that provides an abstract node, inside a list: written
\* in serialize-all, the node is the reference {type: NODE, id: <hash>}, and
\* in null-for-non-json the result is null
C23_Witness ==
    /\ asked.fn = "ToJson"
    /\ asked.arg[1] = List(<<Str("x"), AResult>>)
    /\ asked.out # <<>>
    /\ asked.out[1] =
          JArray(<<JString("x"),
                   JObject(<< <<"artifact_stage", JObject(<<>>)>>,
                              <<"provides",
                                JObject(<< <<"x", NodeReference(AnAbstractNode)>> >>)>>,
                              <<"runfiles", JObject(<<>>)>> >>)>>)
    /\ asked.out[3] = JArray(<<JString("x"), JNull>>)

(***************************************************************************)
(* C24                                                                     *)
(***************************************************************************)
\* the actions processed before the i-th
ProcessedBefore(i) == {traverser.processed[j].action : j \in 1..(i - 1)}

RECURSIVE DependencyClosure(_)
DependencyClosure(ids) ==
    LET more == ids \cup UNION {Graph[Builder(id)].inputs : id \in ids \cap ArtifactsToBeBuilt}
    IN  IF more = ids THEN ids ELSE DependencyClosure(more)

NeededActions == {Builder(id) : id \in DependencyClosure(traverser.ids) \cap ArtifactsToBeBuilt}
NeededOutputs == UNION {Graph[a].outputs : a \in NeededActions}
NeededLocal == DependencyClosure(traverser.ids) \cap LocalArtifacts

CachingExecutionBefore(i) == \E j \in 1..(i - 1) : responses[j].flag = "CacheOutput"

StoredFor(action_id, n) ==
    SelectSeq(SubSeq(responses, 1, n),
              LAMBDA r : r.fn = "StoreResult" /\ r.id = action_id /\ r.out)

\* the result stored last for an action among the first n calls, or <<>>
LastStored(action_id, n) ==
    IF StoredFor(action_id, n) = <<>> THEN <<>>
    ELSE StoredFor(action_id, n)[Len(StoredFor(action_id, n))].result

Calls(ev) == {i \in 1..Len(reader.events) : reader.events[i].ev = ev}

\* C29: along every path through the reader and its continuations the
\* setter is called at most once, and never after the logger was called
\* with fatal.
C29_OutcomeExclusive ==
    /\ Cardinality(Calls("setter")) <= 1
    /\ \A i \in Calls("fatal"), j \in Calls("setter") : j < i

\* the same on every path that reads neither the empty optional of an
\* unresolved node type nor the missing value of a target field
C29_ExclusiveWhenResolved ==
    (/\ reader.key # "unresolved node"
     /\ \A i \in Calls("fatal") : reader.events[i].arg # "While evaluating target parameter")
        => C29_OutcomeExclusive

(***************************************************************************)
(* C30                                                                     *)
(***************************************************************************)
\* C30: for an anonymous target with an abstract node whose node_type is
\* not a key of the rule map, the reader logs the fatal error 'Cannot
\* resolve type of node' and stops there: no rule is asked of the rule
\* map and the setter is never called.
C30_UnresolvedNodeStops ==
    (reader.key = "unresolved node" /\ reader.pc # "reader") =>
        reader.events = <<Fatal("Cannot resolve type of node")>>

(***************************************************************************)
(* C31                                                                     *)
(***************************************************************************)
TargetFieldFailures ==
    {"While evaluating target parameter", "Target parameter should evaluate to a list",
     "Parsing entry in target field failed"}

\* the first call of the logger for a failure of a target field
FirstTargetFieldFailure ==
    {i \in Calls("fatal") :
        /\ reader.events[i].arg \in TargetFieldFailures
        /\ \A j \in Calls("fatal") : j < i => reader.events[j].arg \notin TargetFieldFailures}

\* C31: when evaluating the expression of a target field fails, or its
\* value is not a list, or an entry is no entity name, withRuleDefinition
\* logs the error with fatal and returns: nothing follows the log, so the
\* missing value is not inspected, the sub-caller is not called and the
\* setter is not called.
C31_TargetFieldFailureReturns ==
    \A i \in FirstTargetFieldFailure :
        /\ i = Len(reader.events)
        /\ reader.pc = "done"

\* the same for the two failures that follow a successful evaluation
C31_ReturnsWhenEvaluated ==
    \A i \in FirstTargetFieldFailure :
        reader.events[i].arg # "While evaluating target parameter" =>
            i = Len(reader.events) /\ reader.pc = "done"

(***************************************************************************)
(* C32                                                                     *)
(***************************************************************************)
\* the fields that have dependencies, in the order their keys are requested
RequestedFields == rule_run.rule.target_fields \o rule_run.rule.implicit

\* how many keys the k-th field requests: one per (transition, dependency)
FieldSize(k) ==
    Len(rule_run.rule.config_transitions[RequestedFields[k].name])
        * Len(RequestedFields[k].deps)

RECURSIVE FieldOffset(_)
FieldOffset(k) == IF k = 1 THEN 0 ELSE FieldOffset(k - 1) + FieldSize(k - 1)

\* the zero-based indices into the first wave that belong to the field
FieldPositions(f) ==
    UNION {{FieldOffset(k) + j : j \in 0..(FieldSize(k) - 1)} :
              k \in {i \in 1..Len(RequestedFields) : RequestedFields[i].name = f}}

AllIssued == rule_run.issued[1] \o rule_run.issued[2]

\* C32: whenever withDependencies runs, transition_keys and
\* dependency_values have the same length, and the i-th transition key
\* names the target of the i-th request issued (first wave, then the
\* anonymous wave) with the transition under which it was requested, and
\* the i-th value is the value of that request.  Every index stored in
\* anon_positions is an index into the first-wave values and is that of a
\* dependency of the field the anonymous definition names as its target.
C32_KeyTransitionAlignment ==
    /\ rule_run.pc = "withDependencies" =>
          /\ Len(rule_run.transition_keys) = Len(rule_run.dependency_values)
          /\ Len(rule_run.transition_keys) = Len(AllIssued)
          /\ \A i \in 1..Len(AllIssued) :
                /\ rule_run.transition_keys[i].target = AllIssued[i].target
                /\ AllIssued[i].config =
                      Update(rule_run.key.config, rule_run.transition_keys[i].config)
                /\ rule_run.dependency_values[i].of = AllIssued[i]
    /\ rule_run.pc \notin {"idle", "rule"} =>
          \A f \in DOMAIN rule_run.anon_positions :
             \A j \in 1..Len(rule_run.anon_positions[f]) :
                LET pos == rule_run.anon_positions[f][j]
                IN  /\ pos \in 0..(Len(rule_run.issued[1]) - 1)
                    /\ pos \in FieldPositions(f)

\* withDependencies runs after both waves, the second field is the target
\* of an anonymous definition, and a field has two transitions
C32_Witness ==
    /\ rule_run.pc = "withDependencies"
    /\ Len(rule_run.issued[1]) >= 3
    /\ Len(rule_run.issued[2]) >= 2
    /\ "h" \in DOMAIN rule_run.anon_positions
    /\ rule_run.anon_positions["h"] # <<>>
    /\ rule_run.rule.config_transitions["f"] = <<EmptyConf, Dbg>>
    /\ Len(rule_run.rule.target_fields[1].deps) = 2

(***************************************************************************)
(* C33                                                                     *)
(***************************************************************************)
\* the values of the first wave at the positions of the field, in order
FieldValues(f) ==
    SelectSeq([i \in 1..Len(rule_run.values) |-> [at |-> i - 1, v |-> rule_run.values[i]]],
              LAMBDA x : x.at \in FieldPositions(f))

BadProvider(def, v) ==
    \/ v.provides[def.provider].is # "list"
    \/ \E i \in 1..Len(v.provides[def.provider].list) :
          v.provides[def.provider].list[i] \notin NodeNames

SomeProviderBad ==
    \E d \in 1..Len(rule_run.rule.anonymous) :
       \E i \in 1..Len(FieldValues(rule_run.rule.anonymous[d].target)) :
          BadProvider(rule_run.rule.anonymous[d],
                      FieldValues(rule_run.rule.anonymous[d].target)[i].v)

\* the nodes the dependencies of the referenced field provide
NodesOf(def) ==
    Flatten([i \in 1..Len(FieldValues(def.target)) |->
                FieldValues(def.target)[i].v.provides[def.provider].list])

\* one key per (transition of the anonymous field, node) pair
PairsOf(def) ==
    Flatten([t \in 1..Len(rule_run.rule.config_transitions[def.name]) |->
               [n \in 1..Len(NodesOf(def)) |->
                  ConfiguredTarget(AnonymousTarget(def.rule_map, NodesOf(def)[n]),
                     Update(rule_run.key.config,
                            rule_run.rule.config_transitions[def.name][t]))]])

\* C33: when, for some anonymous definition, a dependency of the field it
\* refers to lacks the provider, or the provider is not a list, or an
\* entry of the list is not a target node, the key fails with one fatal
\* error and no second wave is issued, for no definition; the analysis
\* ends there, before withDependencies and its setter call.  Otherwise
\* the second wave asks for one anonymous key per (transition of the
\* anonymous field, node) pair.
C33_AnonymousResolution ==
    rule_run.pc \in {"done", "anonymous wave"} =>
        IF SomeProviderBad
          THEN /\ rule_run.pc = "done"
               /\ Len(rule_run.logged) = 1
               /\ rule_run.logged[1] \in AnonymousFailures
               /\ Len(rule_run.issued) = 1
          ELSE /\ rule_run.pc = "anonymous wave"
               /\ rule_run.logged = <<>>
               /\ Len(rule_run.issued) = 2
               /\ rule_run.issued[2] =
                     Flatten([d \in 1..Len(rule_run.rule.anonymous) |->
                                 PairsOf(rule_run.rule.anonymous[d])])

\* two definitions, the provider of the second is bad and that of the first
\* gives nodes: nothing is asked for either
C33_Witness ==
    /\ rule_run.pc = "done"
    /\ Len(rule_run.rule.anonymous) = 2
    /\ rule_run.rule.anonymous[2].target = "h"
    /\ NodesOf(rule_run.rule.anonymous[1]) # <<>>
    /\ \E i \in 1..Len(FieldValues("f")) :
          ~BadProvider(rule_run.rule.anonymous[1], FieldValues("f")[i].v)
    /\ ~\E i \in 1..Len(FieldValues("f")) :
          BadProvider(rule_run.rule.anonymous[1], FieldValues("f")[i].v)
    /\ Len(rule_run.issued) = 1

\* no provider is bad and an anonymous field with two transitions gets two
\* nodes: four keys
C33_WitnessPairs ==
    /\ rule_run.pc = "anonymous wave"
    /\ Len(rule_run.rule.anonymous) >= 1
    /\ Len(rule_run.rule.config_transitions["x"]) = 2
    /\ Len(NodesOf(rule_run.rule.anonymous[1])) = 2
    /\ Len(rule_run.issued[2]) >= 4

(***************************************************************************)
(* C34                                                                     *)
(***************************************************************************)
\* the keys of the map a successful call returned
ReturnedKeys(c) == {c.out[2][i][1] : i \in 1..Len(c.out[2])}

\* C34: a successful ACTION call appends exactly one action and returns a
\* map whose keys are exactly the names in outs and out_dirs, each value an
\* action-output artifact with the id of the appended action and the key as
\* its path; a call that ends in an evaluation error leaves the action list
\* unchanged.
C34_ActionEffect ==
    [][(call' # call /\ call'[1].fn = "ACTION") =>
         IF call'[1].out[1] = "error" THEN actions' = actions
         ELSE /\ Len(actions') = Len(actions) + 1
              /\ SubSeq(actions', 1, Len(actions)) = actions
              /\ ReturnedKeys(call'[1])
                    = Names(call'[1].arg.outs) \cup Names(call'[1].arg.out_dirs)
              /\ Len(call'[1].out[2]) = Cardinality(ReturnedKeys(call'[1]))
              /\ \A i \in 1..Len(call'[1].out[2]) :
                    /\ call'[1].out[2][i][2].type = "ACTION"
                    /\ call'[1].out[2][i][2].id = Id(actions'[Len(actions')])
                    /\ call'[1].out[2][i][2].path = call'[1].out[2][i][1]]_vars

\* hence every action id an ACTION call returned belongs to an action of
\* the action list
C34_ReturnedIdsRecorded ==
    (call # <<>> /\ call[1].fn = "ACTION" /\ call[1].out[1] = "map") =>
        \A i \in 1..Len(call[1].out[2]) :
            \E j \in 1..Len(actions) : call[1].out[2][i][2].id = Id(actions[j])

\* the second of two successful calls, with a file and a directory output
C34_Witness ==
    /\ call # <<>>
    /\ call[1].fn = "ACTION"
    /\ call[1].n = 2
    /\ call[1].out[1] = "map"
    /\ Len(actions) = 2
    /\ Names(call[1].arg.outs) = {"o1"}
    /\ Names(call[1].arg.out_dirs) = {"o2"}
    /\ ReturnedKeys(call[1]) = {"o1", "o2"}

(***************************************************************************)
(* C35                                                                     *)
(***************************************************************************)
\* C35: every ToHash call eventually returns: the caller that wins the
\* exchange computes, publishes and notifies, and a caller that found the
\* slot empty and lost the exchange does not wait forever, whether the
\* publication and the notify_all come before or after it starts to wait.
C35_ToHashReturns ==
    \A t \in Threads : (thr[t].called # <<>>) ~> (thr[t].ret # <<>>)

\* a caller that lost the exchange has not yet started to wait, or was
\* woken, the hash is published, and another caller has returned
C35_Witness ==
    \E t, u \in Threads :
        /\ t # u
        /\ At(t, "wait")
        /\ hash_[Top(t).e] # <<>>
        /\ thr[u].ret # <<>>

\* a caller that lost the exchange is blocked in wait before the publication
C35_WitnessBlocked ==
    \E t \in Threads : At(t, "blocked") /\ hash_[Top(t).e] = <<>>

(***************************************************************************)
(* C36                                                                     *)
(***************************************************************************)
\* C36: the add of the result registry is called for a key only when no
\* step of its analysis has failed: a key whose analysis logged a fatal
\* error (a dependency failed, the taint check, a string field, the
\* defining expression failing or not evaluating to a RESULT) or died has
\* no entry added for it.
C36_RegistryOnlyOnSuccess ==
    Calls("result_map->Add") # {} =>
        Calls("fatal") = {} /\ Calls("crash") = {}

\* the same on every path that reads neither the empty optional of an
\* unresolved node type nor the missing value of a target field
C36_OnlyOnSuccessWhenResolved ==
    (/\ reader.key # "unresolved node"
     /\ \A i \in Calls("fatal") : reader.events[i].arg # "While evaluating target parameter")
        => C36_RegistryOnlyOnSuccess

\* the failures of the defining expression add nothing
C36_ExpressionFailureAddsNothing ==
    (\E i \in Calls("fatal") :
        reader.events[i].arg \in {"While evaluating defining expression",
                                  "Defining expression should evaluate to a RESULT"})
        => Calls("result_map->Add") = {}

(***************************************************************************)
(* C37                                                                     *)
(***************************************************************************)
\* what a call found in the CAS it writes to and what it had stored before
\* its i-th store
AvailableBefore(c, i) == c.before \cup {c.stored[j] : j \in 1..(i - 1)}

\* every object is stored after its direct entries
StoredContentFirst(c) ==
    \A i \in 1..Len(c.stored) :
        \A k \in 1..Len(DirectEntries(c.stored[i])) :
            DirectEntries(c.stored[i])[k] \in AvailableBefore(c, i)

\* C37: after any sequence of UploadTree calls in native mode, calls that
\* fail part-way included, every tree blob available in the local CAS has
\* every blob and sub-tree it references available too; the root tree blob
\* is stored only after its content, as the last store of a successful
\* call, and a missing sub-tree only after its own content.
C37_ContentFirstClosure ==
    /\ ContentFirst(upload.local)
    /\ \A i \in 1..Len(upload.call) :
          LET c == upload.call[i]
          IN  /\ c.fn \in {"UploadTree", "UploadBlobTree"} =>
                    /\ StoredContentFirst(c)
                    /\ upload.local = c.before \cup Range(c.stored)
              /\ c.fn = "UploadTree" =>
                    /\ \A j \in 1..Len(c.stored) :
                          (c.stored[j] = c.arg[1]) => (j = Len(c.stored) /\ c.out)
                    /\ (c.out => c.arg[1] \in upload.local)

\* an upload of q into a CAS without t fails after the sub-tree t and its
\* content were stored: q itself is not
C37_Witness ==
    /\ upload.call # <<>>
    /\ upload.call[1].fn = "UploadTree"
    /\ upload.call[1].arg = <<"q">>
    /\ ~upload.call[1].out
    /\ "t" \notin upload.call[1].before
    /\ "t" \in Range(upload.call[1].stored)
    /\ "q" \notin upload.local

(***************************************************************************)
(* C38                                                                     *)
(***************************************************************************)
\* C38: RetrieveToCas into this API itself returns true and uploads
\* nothing.  Into another API, only artifacts the target did not have are
\* uploaded, every tree after its direct entries (which are transferred
\* recursively); when the transfer of the entries fails the call returns
\* false and the tree is not uploaded; a call that returns true has made
\* every artifact asked for available in the target.
C38_RetrieveToCas ==
    \A i \in 1..Len(upload.call) :
        LET c == upload.call[i]
        IN  c.fn = "RetrieveToCas" =>
              /\ upload.target = c.before \cup Range(c.stored)
              /\ IF c.same
                   THEN c.out /\ c.stored = <<>>
                   ELSE /\ \A j \in 1..Len(c.stored) : c.stored[j] \notin c.before
                        /\ StoredContentFirst(c)
                        /\ c.out => Range(c.arg) \subseteq upload.target
                        /\ \A j \in 1..Len(c.arg) :
                              (\E k \in 1..Len(DirectEntries(c.arg[j])) :
                                  DirectEntries(c.arg[j])[k] \notin upload.target)
                                => (~c.out /\ c.arg[j] \notin upload.target)

\* q is asked for, the target lacks it and its sub-tree t; the entries of t
\* are transferred and t is uploaded, then a store fails: false is
\* returned and q is not uploaded
C38_Witness ==
    /\ upload.call # <<>>
    /\ upload.call[1].fn = "RetrieveToCas"
    /\ ~upload.call[1].same
    /\ upload.call[1].arg = <<"q">>
    /\ ~upload.call[1].out
    /\ "s" \notin upload.call[1].before
    /\ "t" \in Range(upload.call[1].stored)
    /\ "q" \notin upload.target

\* the target is this API: true, nothing uploaded
C38_WitnessSame ==
    /\ upload.call # <<>>
    /\ upload.call[1].same
    /\ upload.call[1].arg = <<"q">>
    /\ "q" \in upload.local
    /\ "q" \notin upload.target

(***************************************************************************)
(* C39                                                                     *)
(***************************************************************************)
\* C39: for every key the JSON file reader ran for, the reader made exactly
\* one call: either the setter with a JSON object or the logger with
\* fatal = true, never both and never neither; the key is set exactly when
\* that call is the setter's.
C39_ExactlyOneOutcome ==
    /\ DOMAIN json_calls = DOMAIN json_values
    /\ \A key \in DOMAIN json_calls :
          LET calls == json_calls[key]
          IN  /\ Len(calls) = 1
              /\ \/ /\ calls[1].fn = "setter"
                    /\ calls[1].value[1].kind = "object"
                    /\ json_values[key].status = "set"
                    /\ json_values[key].value = calls[1].value
                 \/ /\ calls[1].fn = "logger"
                    /\ calls[1].fatal
                    /\ json_values[key].status = "failed"
                    /\ json_values[key].msg = calls[1].msg

\* the reader ran for the empty module of the known repository, whose file
\* exists but cannot be read, and for a module of an unknown repository
C39_Witness ==
    /\ files[<<"TARGETS">>] = "unreadable"
    /\ [repository |-> "main", module |-> <<>>] \in DOMAIN json_calls
    /\ json_calls[[repository |-> "main", module |-> <<>>]] =
          <<LoggerCall("cannot read JSON file", TRUE)>>
    /\ [repository |-> "other", module |-> <<"a">>] \in DOMAIN json_calls
    /\ json_calls[[repository |-> "other", module |-> <<"a">>]] =
          <<LoggerCall("Cannot determine root or JSON file name", TRUE)>>

\* the reader ran for the empty module and handed the parsed object of the
\* top-level file to the setter
C39_WitnessSet ==
    /\ [repository |-> "main", module |-> <<>>] \in DOMAIN json_calls
    /\ json_calls[[repository |-> "main", module |-> <<>>]] =
          <<SetterCall(Json("object", {"a"}))>>

(***************************************************************************)
(* C40                                                                     *)
(***************************************************************************)
AnonymousKeys == {"value node", "abstract node", "unresolved node"}

\* the source map is asked at position i: what follows is its failure, or
\* its value handed to the setter as it is, and nothing else
SourceDelegated(i) ==
    /\ reader.events[i] = Event("source_target", "")
    /\ Calls("result_map->Add") = {}
    /\ Len(reader.events) > i =>
          \/ /\ Len(reader.events) = i + 1
             /\ reader.events[i + 1] = Fatal("While source_target")
          \/ /\ Len(reader.events) = i + 2
             /\ reader.events[i + 1].ev = "values[0]"
             /\ reader.events[i + 2] = Event("setter", reader.events[i + 1].arg)

\* C40: once the reader has run for a key: an anonymous key went the way of
\* its node (a value node is set, an abstract node has its rule looked up)
\* and no targets file, source file or directory is ever asked for; a tree
\* reference asks the directory-entries map; a file reference asks the
\* source map and hands its value to the setter unchanged; a named target
\* asks the targets file of its module, and with the file at hand a name
\* that is not defined is asked of the source map in the same way, a
\* description without type fails, and otherwise the built-in rule is run
\* or the user rule named by the type is asked of the rule map.
C40_Dispatch ==
    reader.pc # "reader" =>
        /\ reader.events # <<>>
        /\ reader.key \in AnonymousKeys =>
              /\ \A ev \in {"targets_file", "find", "source_target", "directory_entries"} :
                    Calls(ev) = {}
              /\ reader.events[1] =
                    (CASE reader.key = "value node" -> Setter
                       [] reader.key = "abstract node" -> Event("rule_map", Find(reader.key)[1])
                       [] OTHER -> Fatal("Cannot resolve type of node"))
        /\ reader.key = "tree" =>
              /\ reader.events[1] = Event("directory_entries", "")
              /\ \A ev \in {"targets_file", "find", "source_target", "rule_map"} :
                    Calls(ev) = {}
        /\ reader.key = "file" =>
              /\ SourceDelegated(1)
              /\ \A ev \in {"targets_file", "find", "directory_entries", "rule_map"} :
                    Calls(ev) = {}
        /\ reader.key = "named" =>
              /\ reader.events[1] = Event("targets_file", "")
              /\ Calls("directory_entries") = {}
              /\ Len(reader.events) > 1 =>
                    \/ reader.events = <<Event("targets_file", ""), Fatal("While targets_file")>>
                    \/ /\ reader.events[2].ev = "find"
                       /\ Len(reader.events) > 2
                       /\ LET found == reader.events[2].arg
                          IN  CASE found = "not defined" -> SourceDelegated(3)
                                [] found = "no type" ->
                                     /\ Len(reader.events) = 3
                                     /\ reader.events[3].ev = "fatal"
                                     /\ reader.pc = "done"
                                [] found = "built-in" ->
                                     /\ reader.events[3] = Event("HandleBuiltin", "")
                                     /\ Calls("rule_map") = {} /\ Calls("source_target") = {}
                                [] found \in UserRules ->
                                     /\ reader.events[3] = Event("rule_map", found)
                                     /\ Calls("source_target") = {}
                                [] OTHER ->
                                     /\ Len(reader.events) = 3
                                     /\ reader.events[3].ev = "fatal"

\* a named target that its targets file does not define was analysed as a
\* source file and the value of the source map was handed to the setter
C40_Witness ==
    /\ reader.key = "named"
    /\ reader.events = <<Event("targets_file", ""), Event("find", "not defined"),
                         Event("source_target", ""), Event("values[0]", "local-artifact 2"),
                         Event("setter", "local-artifact 2")>>

\* a file reference was set to the value of the source map
C40_WitnessFile ==
    /\ reader.key = "file"
    /\ reader.events = <<Event("source_target", ""), Event("values[0]", "local-artifact 1"),
                         Event("setter", "local-artifact 1")>>

\* a named target of user rule s had that rule looked up, and an anonymous
\* target was analysed to the end
C40_WitnessRule ==
    /\ reader.key = "named"
    /\ Len(reader.events) >= 3
    /\ reader.events[3] = Event("rule_map", "s")
    /\ reader.pc = "done"
    /\ Calls("setter") # {}

C40_WitnessAnonymous ==
    /\ reader.key = "abstract node"
    /\ reader.pc = "done"
    /\ Calls("setter") # {}

====
